---- MODULE Spec2Model ----
(***************************************************************************)
(* A model of macro-decorators: the path utilities getPath / getPaths /    *)
(* setPath (src/src/utils/index.ts) and the accessor synthesizer macro     *)
(* (src/unnamed/part_000), over a small JavaScript object heap.            *)
(***************************************************************************)
EXTENDS Integers, Sequences, FiniteSets, TLC

VARIABLES heap,     \* object id -> object (own properties, Map data, prototype)
          defs,     \* decorated field -> the definition its macro(...) was given
          descs,    \* accessor descriptors installed on the decorated class
          last,     \* the operation just performed: arguments, heap before, outcome
          nwrites,  \* number of mutating operations performed so far
          console,  \* number of console.warn calls made so far
          hits      \* number of reads and writes of decorated fields so far

vars == <<heap, defs, descs, last, nwrites, console, hits>>

-----------------------------------------------------------------------------
(* Bounds of the model *)

MaxWrites == 1      \* mutating operations per behaviour
MaxStack == 3       \* nested accessor calls the host stack allows
MaxFieldWrites == 2 \* writes per behaviour of a class using the library's macros
MaxHits == 2        \* reads and writes of decorated fields per such behaviour

-----------------------------------------------------------------------------
(* JavaScript values: <<tag, payload>>.  The tag is what typeof reports,   *)
(* except for null, which has its own tag.                                 *)

Undef == <<"undefined", 0>>
Null == <<"null", 0>>
Num(n) == <<"number", n>>
StrVal(s) == <<"string", s>>
Ref(i) == <<"object", i>>
Fn(f) == <<"function", f>>
Arr(elems) == <<"array", elems>>    \* a fresh array holding elems
Bool(b) == <<"boolean", b>>

IsNullish(v) == v = Undef \/ v = Null
IsObject(v) == v[1] = "object"
IsCallable(v) == v[1] = "function"

(* Strings are sequences of characters.  "." is the path separator; every  *)
(* other character is a letter, or a whole word standing for its letters   *)
(* ("get", "set"), which no operation of the program ever looks inside.    *)
Dot == "."
S(c) == <<c>>
EmptyStr == <<>>

(* Sparse maps from property names to values: own properties, Map data.    *)
NoProps == [k \in {} |-> Undef]
Has(f, k) == k \in DOMAIN f
Lookup(f, k) == IF k \in DOMAIN f THEN f[k] ELSE Undef
Put(f, k, v) == [x \in (DOMAIN f) \cup {k} |-> IF x = k THEN v ELSE f[x]]

-----------------------------------------------------------------------------
(* String.prototype operations used by the path utilities *)

RECURSIVE IndexOfFrom(_, _)
IndexOfFrom(s, i) ==
    IF i > Len(s) THEN -1
    ELSE IF s[i] = Dot THEN i - 1
    ELSE IndexOfFrom(s, i + 1)

RECURSIVE LastIndexOfFrom(_, _)
LastIndexOfFrom(s, i) ==
    IF i = 0 THEN -1
    ELSE IF s[i] = Dot THEN i - 1
    ELSE LastIndexOfFrom(s, i - 1)

\* path.lastIndexOf('.'): 0-based index of the last separator, -1 if none
lastIndexOf(s) == LastIndexOfFrom(s, Len(s))

\* path.substr(start, length), start >= 0: a negative length yields ""
substr(s, start, length) ==
    IF length <= 0 \/ start >= Len(s) THEN EmptyStr
    ELSE SubSeq(s, start + 1, IF start + length > Len(s) THEN Len(s) ELSE start + length)

\* path.substr(start), start >= 0
substrFrom(s, start) == SubSeq(s, start + 1, Len(s))

\* path.split('.'): always at least one segment; segments may be empty
RECURSIVE split(_)
split(s) ==
    LET i == IndexOfFrom(s, 1)
    IN IF i = -1 THEN <<s>>
       ELSE <<SubSeq(s, 1, i)>> \o split(SubSeq(s, i + 2, Len(s)))

-----------------------------------------------------------------------------
(* Outcomes.  Every operation yields the heap it leaves, the calls and     *)
(* accesses it made, its value, and whether it completed (ok) or threw.    *)

Ev(e, o, k, v) == [e |-> e, o |-> o, k |-> k, v |-> v]

Ret(h, log, v) == [heap |-> h, log |-> log, v |-> v, ok |-> TRUE]
Throw(h, log) == [heap |-> h, log |-> log, v |-> Undef, ok |-> FALSE]

\* the outcome r with the accesses lg made before it
After(lg, r) == [r EXCEPT !.log = lg \o @]

\* a statement's outcome: that of r, its value dropped
Stmt(r) == [r EXCEPT !.v = Undef]

-----------------------------------------------------------------------------
(* The host object model.  An object has own data properties, Map data    *)
(* when it is a Map, and a prototype: Object.prototype (no member the      *)
(* model names), Map.prototype (get, set) or the decorated class Foo       *)
(* (the accessors of descs).                                               *)

Obj(proto, props, entries) == [proto |-> proto, props |-> props, entries |-> entries]

\* a getter or setter function: its name and the arguments its factory closed over
FnRec(f, path) == [f |-> f, path |-> path]
FnRecWith(f, path, arg) == [f |-> f, path |-> path, arg |-> arg]
NoFn == FnRec("undefined", EmptyStr)

ProtoMember(proto, k) ==
    IF proto = "Map" /\ k = S("get") THEN Fn("mapGet")
    ELSE IF proto = "Map" /\ k = S("set") THEN Fn("mapSet")
    ELSE IF proto = "SomeClass" /\ k = S("get") THEN Fn("someGet")
    ELSE IF proto = "SomeClass" /\ k = S("set") THEN Fn("someSet")
    ELSE Undef

RECURSIVE HostGet(_, _, _, _, _)
RECURSIVE HostSet(_, _, _, _, _, _)
RECURSIVE CallUser(_, _, _, _, _, _, _)
RECURSIVE CallLib(_, _, _, _, _, _, _)
RECURSIVE getPathLoop(_, _, _, _, _, _, _)
RECURSIVE getPathsLoop(_, _, _, _, _, _, _, _)

(* macro(definition): normalise a bare getter function or a {get, set}     *)
(* descriptor to (getter, setter).                                         *)
macroNoSetterCheck(definition) ==
    [getter |-> IF definition.callable THEN definition.fn ELSE definition.get,
     setter |-> IF definition.callable THEN definition.fn ELSE definition.set]

macro(definition) ==
    [getter |-> IF definition.callable THEN definition.fn ELSE definition.get,
     setter |-> IF definition.callable THEN NoFn ELSE definition.set]

(* The decorator macro returns: called once per decorated field with that  *)
(* field's key, it builds a fresh descriptor whose get/set close over key. *)
decorateGetAlways(m, key) ==
    [hasGet |-> TRUE,
     hasSet |-> m.setter # NoFn,
     getter |-> m.getter, setter |-> m.setter, key |-> key]

\* a decorator whose descriptor closes over one key for every field
decorateOneKey(m, key) ==
    [hasGet |-> m.getter # NoFn,
     hasSet |-> m.setter # NoFn,
     getter |-> m.getter, setter |-> m.setter, key |-> S("bar")]

decorate(m, key) ==
    [hasGet |-> m.getter # NoFn,
     hasSet |-> m.setter # NoFn,
     getter |-> m.getter, setter |-> m.setter, key |-> key]

\* the outcome r with its value stored as this[key]
Memo(r, this, key) ==
    IF ~r.ok THEN r
    ELSE [r EXCEPT !.heap = [r.heap EXCEPT ![this[2]].props = Put(@, key, r.v)]]

\* getter.call(this, this, key)
CallGetter(h, d, g, obj, key, fuel) ==
    After(<<Ev("getter", obj, key, Fn(g.f))>>, CallUser(h, d, g, obj, key, Undef, fuel))

\* setter.call(this, this, key, value); the assignment discards what it returns
CallSetter(h, d, s, obj, key, value, fuel) ==
    Stmt(After(<<Ev("setter", obj, key, value)>>, CallUser(h, d, s, obj, key, value, fuel)))

\* a getter that is not entered from within another getter: undefined is read
descGetOnce(h, d, desc, this, fuel) ==
    IF fuel < MaxStack - 1 THEN Ret(h, <<>>, Undef)
    ELSE CallGetter(h, d, desc.getter, this, desc.key, fuel)

\* a getter that keeps its result as an own property of the instance
descGetMemo(h, d, desc, this, fuel) ==
    Memo(CallGetter(h, d, desc.getter, this, desc.key, fuel), this, desc.key)

\* desc.get: getter.call(this, this, key)
descGet(h, d, desc, this, fuel) ==
    CallGetter(h, d, desc.getter, this, desc.key, fuel)

\* desc.set: setter.call(this, this, key, value)
descSet(h, d, desc, this, value, fuel) ==
    CallSetter(h, d, desc.setter, this, desc.key, value, fuel)

(* Reading cur[k].  Own data properties shadow the prototype; an accessor  *)
(* without get reads undefined; reading a property of null or undefined    *)
(* is a TypeError; primitives have none of the properties the model names. *)
HostGet(h, d, cur, k, fuel) ==
    IF IsNullish(cur) THEN Throw(h, <<>>)
    ELSE IF ~IsObject(cur) THEN Ret(h, <<>>, Undef)
    ELSE LET o == h[cur[2]]
         IN IF Has(o.props, k) THEN Ret(h, <<>>, o.props[k])
            ELSE IF o.proto = "Foo" /\ Has(d, k)
            THEN IF ~d[k].hasGet THEN Ret(h, <<>>, Undef)
                 ELSE IF fuel = 0 THEN Throw(h, <<>>)
                 ELSE descGet(h, d, d[k], cur, fuel - 1)
            ELSE Ret(h, <<>>, ProtoMember(o.proto, k))

(* Assigning cur[k] = v in strict-mode code (every module of the          *)
(* repository is an ES module).  An own data property is overwritten; an   *)
(* inherited accessor receives the write, and faults when it has no set;   *)
(* otherwise an own property is created.  Primitives and nullish values    *)
(* cannot take properties.                                                 *)
HostSet(h, d, cur, k, v, fuel) ==
    IF ~IsObject(cur) THEN Throw(h, <<>>)
    ELSE LET id == cur[2]
             o == h[id]
         IN IF ~Has(o.props, k) /\ o.proto = "Foo" /\ Has(d, k)
            THEN IF ~d[k].hasSet THEN Throw(h, <<>>)
                 ELSE IF fuel = 0 THEN Throw(h, <<>>)
                 ELSE descSet(h, d, d[k], cur, v, fuel - 1)
            ELSE Ret([h EXCEPT ![id].props = Put(o.props, k, v)], <<>>, Undef)

(* Calling a function-valued member as a method of this.                   *)
(*   mapGet / mapSet : Map.prototype.get / set, a TypeError on a receiver  *)
(*                     that is not a Map                                   *)
(*   noop            : function() {} as in the setPath test                *)
(*   someGet / someSet : get(key) { return this.inner[key] } and           *)
(*                     set(key, value) { this.inner[key] = value } of      *)
(*                     SomeClass in the alias test; inner is a plain       *)
(*                     object                                              *)
CallMember(h, f, this, args) ==
    IF f = Fn("mapGet") THEN
        IF IsObject(this) /\ h[this[2]].proto = "Map"
        THEN Ret(h, <<>>, Lookup(h[this[2]].entries, args[1]))
        ELSE Throw(h, <<>>)
    ELSE IF f = Fn("mapSet") THEN
        IF IsObject(this) /\ h[this[2]].proto = "Map"
        THEN Ret([h EXCEPT ![this[2]].entries = Put(@, args[1], args[2])], <<>>, this)
        ELSE Throw(h, <<>>)
    ELSE IF f = Fn("someGet") THEN
        IF IsObject(this) /\ IsObject(Lookup(h[this[2]].props, S("inner")))
        THEN Ret(h, <<>>, Lookup(h[Lookup(h[this[2]].props, S("inner"))[2]].props, args[1]))
        ELSE Throw(h, <<>>)
    ELSE IF f = Fn("someSet") THEN
        IF IsObject(this) /\ IsObject(Lookup(h[this[2]].props, S("inner")))
        THEN Ret([h EXCEPT ![Lookup(h[this[2]].props, S("inner"))[2]].props
                               = Put(@, args[1], args[2])], <<>>, Undef)
        ELSE Throw(h, <<>>)
    ELSE Ret(h, <<>>, Undef)

(* User-supplied macro functions, called as f(obj, key, value):           *)
(*   gFoo : target => target.foo              (tests, '@macro works with   *)
(*                                             a function / a getter')     *)
(*   gKey : (target, key) => key              (polymorphic in the key)     *)
(*   sFoo : (target, _key, value) => { target.foo = value }                *)
(*                                            (tests, 'works with a        *)
(*                                             setter')                    *)
(* Calling undefined is a TypeError.  Every other function is one that a   *)
(* macro of the library hands to macro (CallLib).                          *)
CallUser(h, d, f, obj, key, value, fuel) ==
    IF f.f = "gFoo" THEN HostGet(h, d, obj, S("foo"), fuel)
    ELSE IF f.f = "gKey" THEN Ret(h, <<>>, StrVal(key))
    ELSE IF f.f = "sFoo" THEN Stmt(HostSet(h, d, obj, S("foo"), value, fuel))
    ELSE IF f.f = "undefined" THEN Throw(h, <<>>)
    ELSE CallLib(h, d, f, obj, key, value, fuel)

-----------------------------------------------------------------------------
(* src/src/utils/index.ts *)

(* One iteration of getPath's loop body after the nullish test:            *)
(*   current = typeof current.get === 'function'                           *)
(*               ? current.get(segment) : current[segment]                 *)
(* probe is the read of current.get for typeof, m the read for the call.   *)
getPathCall(probe, m, current, segment) ==
    IF ~m.ok \/ ~IsCallable(m.v) THEN Throw(m.heap, probe.log \o m.log)
    ELSE After(probe.log \o m.log \o <<Ev("get", current, segment, Undef)>>,
               CallMember(m.heap, m.v, current, <<segment>>))

getPathDispatch(probe, d, current, segment, fuel) ==
    IF ~probe.ok THEN probe
    ELSE IF IsCallable(probe.v)
    THEN getPathCall(probe, HostGet(probe.heap, d, current, S("get"), fuel), current, segment)
    ELSE After(probe.log \o <<Ev("lookup", current, segment, Undef)>>,
               HostGet(probe.heap, d, current, segment, fuel))

getPathStep(h, d, current, segment, fuel) ==
    getPathDispatch(HostGet(h, d, current, S("get"), fuel), d, current, segment, fuel)

\* the loop goes on from the outcome r of an iteration
getPathNext(r, d, segments, i, fuel) ==
    IF ~r.ok THEN r
    ELSE getPathLoop(r.heap, d, r.v, segments, i + 1, r.log, fuel)

IsFalsy(v) == v \in {Undef, Null, Num(0), StrVal(EmptyStr), Bool(FALSE)}

\* getPathLoop written with  if (!current) break;
getPathLoopBreaksOnFalsy(h, d, current, segments, i, log, fuel) ==
    IF i > Len(segments) THEN Ret(h, log, current)
    ELSE IF IsFalsy(current) THEN Ret(h, log, current)
    ELSE getPathNext(After(log, getPathStep(h, d, current, segments[i], fuel)),
                     d, segments, i, fuel)

\* getPathLoop written without the nullish test
getPathLoopNeverBreaks(h, d, current, segments, i, log, fuel) ==
    IF i > Len(segments) THEN Ret(h, log, current)
    ELSE getPathNext(After(log, getPathStep(h, d, current, segments[i], fuel)),
                     d, segments, i, fuel)

\* for (let segment of segments) { if (current is nullish) break; current = ... }
getPathLoop(h, d, current, segments, i, log, fuel) ==
    IF i > Len(segments) THEN Ret(h, log, current)
    ELSE IF current = Undef \/ current = Null THEN Ret(h, log, current)
    ELSE getPathNext(After(log, getPathStep(h, d, current, segments[i], fuel)),
                     d, segments, i, fuel)

getPath(h, d, obj, path, fuel) ==
    getPathLoop(h, d, obj, split(path), 1, <<>>, fuel)

\* the map goes on from the outcome r of getPath(obj, paths[i])
getPathsNext(r, d, obj, paths, i, acc, fuel) ==
    IF ~r.ok THEN r
    ELSE getPathsLoop(r.heap, d, obj, paths, i + 1, Append(acc, r.v), r.log, fuel)

\* paths.map(p => getPath(obj, p))
getPathsLoop(h, d, obj, paths, i, acc, log, fuel) ==
    IF i > Len(paths) THEN Ret(h, log, Arr(acc))
    ELSE getPathsNext(After(log, getPath(h, d, obj, paths[i], fuel)),
                      d, obj, paths, i, acc, fuel)

getPaths(h, d, obj, paths, fuel) ==
    getPathsLoop(h, d, obj, paths, 1, <<>>, <<>>, fuel)

(* setPath after resolvedObj (the outcome res) is known.  probe is the     *)
(* read of resolvedObj.set for typeof, m the read for the call.            *)
setPathCall(res, probe, m, key, value) ==
    IF ~m.ok \/ ~IsCallable(m.v) THEN Throw(m.heap, res.log \o probe.log \o m.log)
    ELSE Stmt(After(res.log \o probe.log \o m.log \o <<Ev("set", res.v, key, value)>>,
                    CallMember(m.heap, m.v, res.v, <<key, value>>)))

setPathDispatch(res, probe, d, key, value, fuel) ==
    IF ~probe.ok THEN Throw(probe.heap, res.log \o probe.log)
    ELSE IF IsCallable(probe.v)
    THEN setPathCall(res, probe, HostGet(probe.heap, d, res.v, S("set"), fuel), key, value)
    ELSE Stmt(After(res.log \o probe.log \o <<Ev("assign", res.v, key, value)>>,
                    HostSet(probe.heap, d, res.v, key, value, fuel)))

setPathResolved(res, d, key, value, fuel) ==
    IF ~res.ok THEN res
    ELSE setPathDispatch(res, HostGet(res.heap, d, res.v, S("set"), fuel), d, key, value, fuel)

\* setPath splitting the path at its first '.'
setPathAtFirstDot(h, d, obj, path, value, fuel) ==
    LET objPath == substr(path, 0, IndexOfFrom(path, 1))
        key == substrFrom(path, IndexOfFrom(path, 1) + 1)
    IN setPathResolved(IF objPath # EmptyStr THEN getPath(h, d, obj, objPath, fuel)
                       ELSE Ret(h, <<>>, obj),
                       d, key, value, fuel)

\* setPath written as  resolvedObj[key] = value;  whatever members resolvedObj has
setPathAssigns(h, d, obj, path, value, fuel) ==
    LET objPath == substr(path, 0, lastIndexOf(path))
        key == substrFrom(path, lastIndexOf(path) + 1)
        res == IF objPath # EmptyStr THEN getPath(h, d, obj, objPath, fuel)
               ELSE Ret(h, <<>>, obj)
    IN IF ~res.ok THEN res
       ELSE Stmt(After(res.log \o <<Ev("assign", res.v, key, value)>>,
                       HostSet(res.heap, d, res.v, key, value, fuel)))

\* setPath written with  if (resolvedObj == null) return;
setPathSkipsNullish(h, d, obj, path, value, fuel) ==
    LET objPath == substr(path, 0, lastIndexOf(path))
        key == substrFrom(path, lastIndexOf(path) + 1)
        res == IF objPath # EmptyStr THEN getPath(h, d, obj, objPath, fuel)
               ELSE Ret(h, <<>>, obj)
    IN IF res.ok /\ IsNullish(res.v) THEN Stmt(res)
       ELSE setPathResolved(res, d, key, value, fuel)

setPath(h, d, obj, path, value, fuel) ==
    LET objPath == substr(path, 0, lastIndexOf(path))
        key == substrFrom(path, lastIndexOf(path) + 1)
    IN setPathResolved(IF objPath # EmptyStr THEN getPath(h, d, obj, objPath, fuel)
                       ELSE Ret(h, <<>>, obj),
                       d, key, value, fuel)

-----------------------------------------------------------------------------
(* src/src/index.ts: the module-private path helpers of the macro file,    *)
(* which read by direct member access only                                 *)

RECURSIVE idxGetPathLoop(_, _, _, _, _, _, _)
idxGetPathNext(r, d, segments, i, fuel) ==
    IF ~r.ok THEN r
    ELSE idxGetPathLoop(r.heap, d, r.v, segments, i + 1, r.log, fuel)

\* for (let segment of segments) { if (nullish) break; current = current[segment]; }
idxGetPathLoop(h, d, current, segments, i, log, fuel) ==
    IF i > Len(segments) THEN Ret(h, log, current)
    ELSE IF current = Undef \/ current = Null THEN Ret(h, log, current)
    ELSE idxGetPathNext(After(log \o <<Ev("lookup", current, segments[i], Undef)>>,
                              HostGet(h, d, current, segments[i], fuel)),
                        d, segments, i, fuel)

idxGetPath(h, d, obj, path, fuel) ==
    idxGetPathLoop(h, d, obj, split(path), 1, <<>>, fuel)

RECURSIVE idxGetPathsLoop(_, _, _, _, _, _, _, _)
idxGetPathsNext(r, d, obj, paths, i, acc, fuel) ==
    IF ~r.ok THEN r
    ELSE idxGetPathsLoop(r.heap, d, obj, paths, i + 1, Append(acc, r.v), r.log, fuel)

\* paths.map(p => obj[p])
idxGetPathsLoop(h, d, obj, paths, i, acc, log, fuel) ==
    IF i > Len(paths) THEN Ret(h, log, Arr(acc))
    ELSE idxGetPathsNext(After(log \o <<Ev("lookup", obj, paths[i], Undef)>>,
                               HostGet(h, d, obj, paths[i], fuel)),
                         d, obj, paths, i, acc, fuel)

idxGetPaths(h, d, obj, paths, fuel) ==
    idxGetPathsLoop(h, d, obj, paths, 1, <<>>, <<>>, fuel)

-----------------------------------------------------------------------------
(* src/src/index.ts: setPath, and alias over the path helpers of that file *)

\* resolvedObj[key] = value, after resolvedObj (the outcome res) is known
\* an assignment that is skipped when there is no object to assign to
idxSetPathResolvedGuarded(res, d, key, value, fuel) ==
    IF ~res.ok THEN res
    ELSE IF IsNullish(res.v) THEN Ret(res.heap, res.log, Undef)
    ELSE Stmt(After(res.log \o <<Ev("assign", res.v, key, value)>>,
                    HostSet(res.heap, d, res.v, key, value, fuel)))

idxSetPathResolved(res, d, key, value, fuel) ==
    IF ~res.ok THEN res
    ELSE Stmt(After(res.log \o <<Ev("assign", res.v, key, value)>>,
                    HostSet(res.heap, d, res.v, key, value, fuel)))

idxSetPath(h, d, obj, path, value, fuel) ==
    LET objPath == substr(path, 0, lastIndexOf(path))
        key == substrFrom(path, lastIndexOf(path) + 1)
    IN idxSetPathResolved(IF objPath # EmptyStr THEN idxGetPath(h, d, obj, objPath, fuel)
                          ELSE Ret(h, <<>>, obj),
                          d, key, value, fuel)

\* get(obj) { return getPath(obj, path); }
idxAliasGet(h, d, path, obj, fuel) == idxGetPath(h, d, obj, path, fuel)

\* set(obj, _key, value) { setPath(obj, path, value); }
idxAliasSet(h, d, path, obj, value, fuel) == idxSetPath(h, d, obj, path, value, fuel)

\* what alias(path) of src/src/index.ts hands to macro
idxAlias(path) ==
    [callable |-> FALSE, fn |-> NoFn,
     get |-> FnRec("idxAliasGet", path), set |-> FnRec("idxAliasSet", path)]

-----------------------------------------------------------------------------
(* src/unnamed/part_000: aliasing macros.  Each macro is modelled by the   *)
(* definition it hands to macro and by the getter and setter of that       *)
(* definition.                                                             *)

\* calling a function value with no receiver and no argument; () => [] allocates
CallPlain(h, f) ==
    IF f = Fn("newArray")
    THEN Ret(Append(h, Obj("Array", NoProps, <<>>)), <<>>, Ref(Len(h) + 1))
    ELSE CallMember(h, f, Undef, <<>>)

\* alias: get(obj) { return getPath(obj, path); }
aliasGet(h, d, path, obj, fuel) == getPath(h, d, obj, path, fuel)

\* alias written so that its setter ignores the write
aliasSetDropsWrite(h, d, path, obj, value, fuel) == Ret(h, <<>>, Undef)

\* alias: set(obj, _key, value) { setPath(obj, path, value); }
aliasSet(h, d, path, obj, value, fuel) == setPath(h, d, obj, path, value, fuel)

alias(path) ==
    [callable |-> FALSE, fn |-> NoFn,
     get |-> FnRec("aliasGet", path), set |-> FnRec("aliasSet", path)]

\* console.warn(...): one warning, naming the object and the key
Warn(obj, key, what) == <<Ev("warn", obj, key, StrVal(S(what)))>>

\* deprecatingAlias: get(obj, key) { console.warn(...); return getPath(obj, path); }
deprecatingAliasGet(h, d, path, obj, key, fuel) ==
    After(Warn(obj, key, "got"), getPath(h, d, obj, path, fuel))

\* deprecatingAlias written so that only reads warn
deprecatingAliasSetSilent(h, d, path, obj, key, value, fuel) ==
    setPath(h, d, obj, path, value, fuel)

\* deprecatingAlias: set(obj, key, value) { console.warn(...); setPath(obj, path, value); }
deprecatingAliasSet(h, d, path, obj, key, value, fuel) ==
    After(Warn(obj, key, "set"), setPath(h, d, obj, path, value, fuel))

deprecatingAlias(path, message) ==
    [callable |-> FALSE, fn |-> NoFn,
     get |-> FnRecWith("deprecatingAliasGet", path, message),
     set |-> FnRecWith("deprecatingAliasSet", path, message)]

\* reads written with  if (!value)
readsValueOnFalsy(value, defaultValue) ==
    IF ~value.ok THEN value
    ELSE IF IsFalsy(value.v)
    THEN IF IsCallable(defaultValue)
         THEN After(value.log \o <<Ev("call", Undef, EmptyStr, defaultValue)>>,
                    CallPlain(value.heap, defaultValue))
         ELSE Ret(value.heap, value.log, defaultValue)
    ELSE value

\* reads written to call defaultValue once and keep what it returned
readsValueOnce(value, defaultValue) ==
    IF ~value.ok THEN value
    ELSE IF value.v = Null \/ value.v = Undef
    THEN IF IsCallable(defaultValue)
         THEN IF Len(value.heap) > 1 THEN Ret(value.heap, value.log, Ref(2))
              ELSE After(value.log \o <<Ev("call", Undef, EmptyStr, defaultValue)>>,
                         CallPlain(value.heap, defaultValue))
         ELSE Ret(value.heap, value.log, defaultValue)
    ELSE value

(* reads: value is the outcome of getPath(obj, path);                      *)
(*   if (value === null || value === undefined)                            *)
(*     value = typeof defaultValue === 'function' ? defaultValue()         *)
(*                                                : defaultValue;          *)
readsValue(value, defaultValue) ==
    IF ~value.ok THEN value
    ELSE IF value.v = Null \/ value.v = Undef
    THEN IF IsCallable(defaultValue)
         THEN After(value.log \o <<Ev("call", Undef, EmptyStr, defaultValue)>>,
                    CallPlain(value.heap, defaultValue))
         ELSE Ret(value.heap, value.log, defaultValue)
    ELSE value

readsGet(h, d, path, defaultValue, obj, fuel) ==
    readsValue(getPath(h, d, obj, path, fuel), defaultValue)

reads(path, defaultValue) ==
    [callable |-> TRUE, fn |-> FnRecWith("readsGet", path, defaultValue),
     get |-> NoFn, set |-> NoFn]

\* overridableReads: get(obj) { return getPath(obj, path); }
overridableReadsGet(h, d, path, obj, fuel) == getPath(h, d, obj, path, fuel)

\* overridableReads written with a setter that does nothing
overridableReadsSetIgnored(h, obj, key, value) == Ret(h, <<>>, Undef)

\* a setter that defines the property for the class: on every instance
overridableReadsSetOnClass(h, obj, key, value) ==
    Ret([i \in DOMAIN h |->
            IF h[i].proto = "Foo" THEN [h[i] EXCEPT !.props = Put(@, key, value)] ELSE h[i]],
        <<Ev("define", obj, key, value)>>, Undef)

(* overridableReads: set(obj, key, value) {                                *)
(*   Object.defineProperty(obj, key, { writable, configurable, value }) }  *)
overridableReadsSet(h, obj, key, value) ==
    IF ~IsObject(obj) THEN Throw(h, <<>>)
    ELSE Ret([h EXCEPT ![obj[2]].props = Put(@, key, value)],
             <<Ev("define", obj, key, value)>>, Undef)

overridableReads(path) ==
    [callable |-> FALSE, fn |-> NoFn,
     get |-> FnRec("overridableReadsGet", path),
     set |-> FnRec("overridableReadsSet", path)]

-----------------------------------------------------------------------------
(* Arrays.  An array stored in a field is a heap object of prototype       *)
(* Array whose entries are its elements; Arr(elems) is an array that an    *)
(* expression has just created (a literal, or the result of filter, map,   *)
(* slice or Array.from) and that no object refers to yet.                  *)

IsArray(h, v) == v[1] = "array" \/ (IsObject(v) /\ h[v[2]].proto = "Array")
Elems(h, v) == IF v[1] = "array" THEN v[2] ELSE h[v[2]].entries

\* v[key] of an array element: a property of a plain object, undefined on a number
ElemProp(h, v, key) == IF IsObject(v) THEN Lookup(h[v[2]].props, key) ELSE Undef

\* a < b and a > b on numbers
Less(a, b) == a[1] = "number" /\ b[1] = "number" /\ a[2] < b[2]

(* The callbacks handed to filter, map and sort.                           *)
(*   isOne      : i => i === 1                          (test '@filter')   *)
(*   propIs     : v => v[key] === value                 (filterBy)         *)
(*   propTruthy : v => Boolean(v[key])                  (filterBy)         *)
(*   inc        : i => i + 1                            (test '@map')      *)
(*   prop       : v => v[key]                           (mapBy)            *)
(*   desc       : (a, b) => (a < b ? 1 : -1)            (test '@sort')     *)
(*   byKey      : the comparator of sortBy                                 *)
Callback(cb, key, value) == [cb |-> cb, key |-> key, value |-> value]

Test(h, fn, v) ==
    IF fn.cb = "isOne" THEN v = Num(1)
    ELSE IF fn.cb = "propIs" THEN ElemProp(h, v, fn.key) = fn.value
    ELSE ~IsFalsy(ElemProp(h, v, fn.key))

Apply(h, fn, v) ==
    IF fn.cb = "inc" THEN Num(v[2] + 1)
    ELSE ElemProp(h, v, fn.key)

Compare(h, fn, a, b) ==
    IF fn.cb = "desc" THEN (IF Less(a, b) THEN 1 ELSE -1)
    ELSE IF Less(ElemProp(h, a, fn.key), ElemProp(h, b, fn.key))
         THEN (IF fn.value THEN -1 ELSE 1)
    ELSE IF Less(ElemProp(h, b, fn.key), ElemProp(h, a, fn.key))
         THEN (IF fn.value THEN 1 ELSE -1)
    ELSE 0

\* Array.prototype.filter, map and reduce((s, v) => s + v, 0) on the elements
RECURSIVE FilterSeq(_, _, _)
FilterSeq(h, fn, elems) ==
    IF elems = <<>> THEN <<>>
    ELSE (IF Test(h, fn, Head(elems)) THEN <<Head(elems)>> ELSE <<>>)
            \o FilterSeq(h, fn, Tail(elems))

MapSeq(h, fn, elems) == [i \in 1..Len(elems) |-> Apply(h, fn, elems[i])]

RECURSIVE SumSeq(_)
SumSeq(elems) == IF elems = <<>> THEN 0 ELSE Head(elems)[2] + SumSeq(Tail(elems))

(* Array.prototype.sort(fn): a stable insertion sort; x moves left past    *)
(* every element the comparator puts after it.                             *)
RECURSIVE InsertSorted(_, _, _, _)
InsertSorted(h, fn, sorted, x) ==
    IF sorted = <<>> THEN <<x>>
    ELSE IF Compare(h, fn, sorted[Len(sorted)], x) > 0
         THEN Append(InsertSorted(h, fn, SubSeq(sorted, 1, Len(sorted) - 1), x),
                     sorted[Len(sorted)])
    ELSE Append(sorted, x)

RECURSIVE ArraySort(_, _, _)
ArraySort(h, fn, elems) ==
    IF elems = <<>> THEN <<>>
    ELSE InsertSorted(h, fn, ArraySort(h, fn, SubSeq(elems, 1, Len(elems) - 1)),
                      elems[Len(elems)])

\* setFrom(arr): the Set of the elements; values.has(v) is membership
setFrom(elems) == {elems[i] : i \in 1..Len(elems)}

\* a list in place of the Set: every value is appended, seen before or not
AddAllKeepsDuplicates(set, elems) == set \o elems

\* union.add(v) for every v of elems in order, on a Set kept in insertion order
RECURSIVE AddAll(_, _)
AddAll(set, elems) ==
    IF elems = <<>> THEN set
    ELSE AddAll(IF Head(elems) \in setFrom(set) THEN set ELSE Append(set, Head(elems)),
                Tail(elems))

\* getValues(set): Array.from(set)
getValues(set) == Arr(set)

\* getPath(obj, path) || []
getArrayOr(value) ==
    IF ~value.ok THEN value
    ELSE IF IsFalsy(value.v) THEN Ret(value.heap, value.log, Arr(<<>>))
    ELSE value

\* getArray written as getPath(obj, path)
getArrayUnguarded(h, d, obj, path, fuel) == getPath(h, d, obj, path, fuel)

getArray(h, d, obj, path, fuel) == getArrayOr(getPath(h, d, obj, path, fuel))

\* paths.map(p => getArray(obj, p)): the outcome holds the array of arrays
RECURSIVE getArraysLoop(_, _, _, _, _, _, _, _)
getArraysNext(r, d, obj, paths, i, acc, fuel) ==
    IF ~r.ok THEN r
    ELSE getArraysLoop(r.heap, d, obj, paths, i + 1, Append(acc, r.v), r.log, fuel)

getArraysLoop(h, d, obj, paths, i, acc, log, fuel) ==
    IF i > Len(paths) THEN Ret(h, log, Arr(acc))
    ELSE getArraysNext(After(log, getArray(h, d, obj, paths[i], fuel)),
                       d, obj, paths, i, acc, fuel)

getArrays(h, d, obj, paths, fuel) ==
    getArraysLoop(h, d, obj, paths, 1, <<>>, <<>>, fuel)

\* a method of Array.prototype called on the outcome r: a TypeError on anything else
OnArray(r, result) ==
    IF ~r.ok THEN r
    ELSE IF ~IsArray(r.heap, r.v) THEN Throw(r.heap, r.log)
    ELSE Ret(r.heap, r.log, result)

\* every operand is an array
AllArrays(h, arrays) == \A i \in 1..Len(arrays) : IsArray(h, arrays[i])

\* filter: obj => getArray(obj, path).filter(fn)
filterOf(r, fn) ==
    IF ~r.ok \/ ~IsArray(r.heap, r.v) THEN OnArray(r, Undef)
    ELSE OnArray(r, Arr(FilterSeq(r.heap, fn, Elems(r.heap, r.v))))

filterGetter(h, d, path, fn, obj, fuel) == filterOf(getArray(h, d, obj, path, fuel), fn)

filter(path, fn) ==
    [callable |-> TRUE, fn |-> FnRecWith("filter", path, fn), get |-> NoFn, set |-> NoFn]

filterBy(path, key, value) ==
    IF value # Undef THEN filter(path, Callback("propIs", key, value))
    ELSE filter(path, Callback("propTruthy", key, Undef))

\* map: obj => getArray(obj, path).map(fn)
mapOf(r, fn) ==
    IF ~r.ok \/ ~IsArray(r.heap, r.v) THEN OnArray(r, Undef)
    ELSE OnArray(r, Arr(MapSeq(r.heap, fn, Elems(r.heap, r.v))))

mapGetter(h, d, path, fn, obj, fuel) == mapOf(getArray(h, d, obj, path, fuel), fn)

map(path, fn) ==
    [callable |-> TRUE, fn |-> FnRecWith("map", path, fn), get |-> NoFn, set |-> NoFn]

mapBy(path, key) == map(path, Callback("prop", key, Undef))

\* sort written as getArray(obj, path).sort(fn): the array is sorted in place
sortOfInPlace(r, fn) ==
    IF ~r.ok \/ ~IsArray(r.heap, r.v) THEN OnArray(r, Undef)
    ELSE IF r.v[1] = "array" THEN OnArray(r, Arr(ArraySort(r.heap, fn, r.v[2])))
    ELSE Ret([r.heap EXCEPT ![r.v[2]].entries = ArraySort(r.heap, fn, @)], r.log, r.v)

\* sort: obj => getArray(obj, path).slice().sort(fn)
sortOf(r, fn) ==
    IF ~r.ok \/ ~IsArray(r.heap, r.v) THEN OnArray(r, Undef)
    ELSE OnArray(r, Arr(ArraySort(r.heap, fn, Elems(r.heap, r.v))))

sortGetter(h, d, path, fn, obj, fuel) == sortOf(getArray(h, d, obj, path, fuel), fn)

sort(path, fn) ==
    [callable |-> TRUE, fn |-> FnRecWith("sort", path, fn), get |-> NoFn, set |-> NoFn]

sortBy(path, key, asc) == sort(path, Callback("byKey", key, asc))

\* sum: obj => getArray(obj, path).reduce((s, v) => s + v, 0)
sumOf(r) ==
    IF ~r.ok \/ ~IsArray(r.heap, r.v) THEN OnArray(r, Undef)
    ELSE OnArray(r, Num(SumSeq(Elems(r.heap, r.v))))

sumGetter(h, d, path, obj, fuel) == sumOf(getArray(h, d, obj, path, fuel))

sum(path) ==
    [callable |-> TRUE, fn |-> FnRec("sum", path), get |-> NoFn, set |-> NoFn]

(* diff and intersect: intersect = arrays.shift(); for (let arr of arrays) *)
(*   intersect = intersect.filter(v => !values.has(v))   (diff)            *)
(*   intersect = intersect.filter(v => values.has(v))    (intersect)       *)
(* The first array itself is the result when there is no further array.    *)
RECURSIVE Without(_, _, _, _)
Without(h, elems, arrays, i) ==
    IF i > Len(arrays) THEN elems
    ELSE Without(h, SelectSeq(elems, LAMBDA v : v \notin setFrom(Elems(h, arrays[i]))),
                 arrays, i + 1)

RECURSIVE Within(_, _, _, _)
Within(h, elems, arrays, i) ==
    IF i > Len(arrays) THEN elems
    ELSE Within(h, SelectSeq(elems, LAMBDA v : v \in setFrom(Elems(h, arrays[i]))),
                arrays, i + 1)

\* diff written with  values.has(v)  in place of  !values.has(v)
diffOfKeeps(r) ==
    IF ~r.ok THEN r
    ELSE IF Len(r.v[2]) = 1 THEN Ret(r.heap, r.log, r.v[2][1])
    ELSE IF ~AllArrays(r.heap, r.v[2]) THEN Throw(r.heap, r.log)
    ELSE Ret(r.heap, r.log, Arr(Within(r.heap, Elems(r.heap, r.v[2][1]), r.v[2], 2)))

diffOf(r) ==
    IF ~r.ok THEN r
    ELSE IF Len(r.v[2]) = 1 THEN Ret(r.heap, r.log, r.v[2][1])
    ELSE IF ~AllArrays(r.heap, r.v[2]) THEN Throw(r.heap, r.log)
    ELSE Ret(r.heap, r.log, Arr(Without(r.heap, Elems(r.heap, r.v[2][1]), r.v[2], 2)))

diffGetter(h, d, paths, obj, fuel) ==
    IF Len(paths) = 0 THEN Ret(h, <<>>, Arr(<<>>))
    ELSE diffOf(getArrays(h, d, obj, paths, fuel))

diff(paths) ==
    [callable |-> TRUE, fn |-> FnRec("diff", paths), get |-> NoFn, set |-> NoFn]

\* intersect written to test only the last of the further arrays
intersectOfLast(r) ==
    IF ~r.ok THEN r
    ELSE IF Len(r.v[2]) = 1 THEN Ret(r.heap, r.log, r.v[2][1])
    ELSE IF ~AllArrays(r.heap, r.v[2]) THEN Throw(r.heap, r.log)
    ELSE Ret(r.heap, r.log,
             Arr(Within(r.heap, Elems(r.heap, r.v[2][1]), r.v[2], Len(r.v[2]))))

intersectOf(r) ==
    IF ~r.ok THEN r
    ELSE IF Len(r.v[2]) = 1 THEN Ret(r.heap, r.log, r.v[2][1])
    ELSE IF ~AllArrays(r.heap, r.v[2]) THEN Throw(r.heap, r.log)
    ELSE Ret(r.heap, r.log, Arr(Within(r.heap, Elems(r.heap, r.v[2][1]), r.v[2], 2)))

intersectGetter(h, d, paths, obj, fuel) ==
    IF Len(paths) = 0 THEN Ret(h, <<>>, Arr(<<>>))
    ELSE intersectOf(getArrays(h, d, obj, paths, fuel))

intersect(paths) ==
    [callable |-> TRUE, fn |-> FnRec("intersect", paths), get |-> NoFn, set |-> NoFn]

\* union: for (let arr of arrays) arr.forEach(v => union.add(v)); getValues(union)
RECURSIVE UnionAll(_, _, _, _)
UnionAll(h, set, arrays, i) ==
    IF i > Len(arrays) THEN set
    ELSE UnionAll(h, AddAll(set, Elems(h, arrays[i])), arrays, i + 1)

unionOf(r) ==
    IF ~r.ok THEN r
    ELSE IF ~AllArrays(r.heap, r.v[2]) THEN Throw(r.heap, r.log)
    ELSE Ret(r.heap, r.log, getValues(UnionAll(r.heap, <<>>, r.v[2], 1)))

unionGetter(h, d, paths, obj, fuel) == unionOf(getArrays(h, d, obj, paths, fuel))

union(paths) ==
    [callable |-> TRUE, fn |-> FnRec("union", paths), get |-> NoFn, set |-> NoFn]

unique(path) == union(<<path>>)

(* uniqueBy: arr.forEach(v => { let keyValue = v[key];                     *)
(*   if (!union.has(keyValue)) { union.add(keyValue); values.push(v); } }) *)
RECURSIVE UniqueSeq(_, _, _, _)
UniqueSeq(h, key, elems, seen) ==
    IF elems = <<>> THEN <<>>
    ELSE IF ElemProp(h, Head(elems), key) \in seen
         THEN UniqueSeq(h, key, Tail(elems), seen)
    ELSE <<Head(elems)>>
            \o UniqueSeq(h, key, Tail(elems), seen \cup {ElemProp(h, Head(elems), key)})

\* without the test of union.has(keyValue): every element is pushed
uniqueByOfKeepsAll(r, key) ==
    IF ~r.ok \/ ~IsArray(r.heap, r.v) THEN OnArray(r, Undef)
    ELSE OnArray(r, Arr(Elems(r.heap, r.v)))

uniqueByOf(r, key) ==
    IF ~r.ok \/ ~IsArray(r.heap, r.v) THEN OnArray(r, Undef)
    ELSE OnArray(r, Arr(UniqueSeq(r.heap, key, Elems(r.heap, r.v), {})))

uniqueByGetter(h, d, path, key, obj, fuel) ==
    uniqueByOf(getArray(h, d, obj, path, fuel), key)

uniqueBy(path, key) ==
    [callable |-> TRUE, fn |-> FnRecWith("uniqueBy", path, key), get |-> NoFn, set |-> NoFn]

(* max and min: Math.max(...getArray(obj, path)), Math.min(...).  With no  *)
(* argument Math.max() is -Infinity and Math.min() is Infinity; an         *)
(* argument that is an object converts to NaN.                             *)
Infinity == <<"infinity", 1>>
NegInfinity == <<"infinity", -1>>
NaN == <<"NaN", 0>>

RECURSIVE MathMax(_, _)
MathMax(elems, acc) ==
    IF elems = <<>> THEN acc
    ELSE IF Head(elems)[1] # "number" \/ acc = NaN THEN NaN
    ELSE MathMax(Tail(elems),
                 IF acc = NegInfinity \/ acc[2] < Head(elems)[2] THEN Head(elems) ELSE acc)

RECURSIVE MathMin(_, _)
MathMin(elems, acc) ==
    IF elems = <<>> THEN acc
    ELSE IF Head(elems)[1] # "number" \/ acc = NaN THEN NaN
    ELSE MathMin(Tail(elems),
                 IF acc = Infinity \/ Head(elems)[2] < acc[2] THEN Head(elems) ELSE acc)

\* a maximum that starts from 0
maxOfFromZero(r) ==
    IF ~r.ok \/ ~IsArray(r.heap, r.v) THEN OnArray(r, Undef)
    ELSE OnArray(r, MathMax(Elems(r.heap, r.v), Num(0)))

maxOf(r) ==
    IF ~r.ok \/ ~IsArray(r.heap, r.v) THEN OnArray(r, Undef)
    ELSE OnArray(r, MathMax(Elems(r.heap, r.v), NegInfinity))

maxGetter(h, d, path, obj, fuel) == maxOf(getArray(h, d, obj, path, fuel))

max(path) ==
    [callable |-> TRUE, fn |-> FnRec("max", path), get |-> NoFn, set |-> NoFn]

minOf(r) ==
    IF ~r.ok \/ ~IsArray(r.heap, r.v) THEN OnArray(r, Undef)
    ELSE OnArray(r, MathMin(Elems(r.heap, r.v), Infinity))

minGetter(h, d, path, obj, fuel) == minOf(getArray(h, d, obj, path, fuel))

min(path) ==
    [callable |-> TRUE, fn |-> FnRec("min", path), get |-> NoFn, set |-> NoFn]

-----------------------------------------------------------------------------
(* src/unnamed/part_000: the logical macros *)

\* a test of Boolean(value) alone
isEmptyFalsyOnly(h, value) == IsFalsy(value)

\* isEmpty(value): !Boolean(value), or an array of length 0
isEmpty(h, value) ==
    IsFalsy(value) \/ (IsArray(h, value) /\ Len(Elems(h, value)) = 0)

\* values.reduce((a, b) => a && b, true) from index i on, a the accumulator
RECURSIVE AndFold(_, _, _)
AndFold(values, a, i) ==
    IF i > Len(values) THEN a
    ELSE AndFold(values, IF IsFalsy(a) THEN a ELSE values[i], i + 1)

\* values.reduce((a, b) => a || b, false)
RECURSIVE OrFold(_, _, _)
OrFold(values, a, i) ==
    IF i > Len(values) THEN a
    ELSE OrFold(values, IF IsFalsy(a) THEN values[i] ELSE a, i + 1)

\* a fold that keeps the last value
andOfLast(r) ==
    IF ~r.ok THEN r
    ELSE Ret(r.heap, r.log, IF r.v[2] = <<>> THEN Bool(TRUE) ELSE r.v[2][Len(r.v[2])])

andOf(r) ==
    IF ~r.ok THEN r ELSE Ret(r.heap, r.log, AndFold(r.v[2], Bool(TRUE), 1))

\* obj => getPaths(obj, paths).reduce((a, b) => a && b, true)
andGetter(h, d, paths, obj, fuel) == andOf(getPaths(h, d, obj, paths, fuel))

and(paths) ==
    [callable |-> TRUE, fn |-> FnRec("and", paths), get |-> NoFn, set |-> NoFn]

orOf(r) ==
    IF ~r.ok THEN r ELSE Ret(r.heap, r.log, OrFold(r.v[2], Bool(FALSE), 1))

\* obj => getPaths(obj, paths).reduce((a, b) => a || b, false)
orGetter(h, d, paths, obj, fuel) == orOf(getPaths(h, d, obj, paths, fuel))

or(paths) ==
    [callable |-> TRUE, fn |-> FnRec("or", paths), get |-> NoFn, set |-> NoFn]

emptyOf(r) ==
    IF ~r.ok THEN r ELSE Ret(r.heap, r.log, Bool(isEmpty(r.heap, r.v)))

\* obj => isEmpty(getPath(obj, path))
emptyGetter(h, d, path, obj, fuel) == emptyOf(getPath(h, d, obj, path, fuel))

empty(path) ==
    [callable |-> TRUE, fn |-> FnRec("empty", path), get |-> NoFn, set |-> NoFn]

notEmptyOf(r) ==
    IF ~r.ok THEN r ELSE Ret(r.heap, r.log, Bool(~isEmpty(r.heap, r.v)))

\* obj => !isEmpty(getPath(obj, path))
notEmptyGetter(h, d, path, obj, fuel) == notEmptyOf(getPath(h, d, obj, path, fuel))

notEmpty(path) ==
    [callable |-> TRUE, fn |-> FnRec("notEmpty", path), get |-> NoFn, set |-> NoFn]

(* src/src/index.ts: filter and sort over the getPath of that file         *)

\* obj => getPath(obj, path).filter(fn)
idxFilterGetter(h, d, path, fn, obj, fuel) == filterOf(idxGetPath(h, d, obj, path, fuel), fn)

idxFilter(path, fn) ==
    [callable |-> TRUE, fn |-> FnRecWith("idxFilter", path, fn), get |-> NoFn, set |-> NoFn]

\* obj => getPath(obj, path).sort(sortFn)
idxSortGetter(h, d, path, fn, obj, fuel) ==
    sortOfInPlace(idxGetPath(h, d, obj, path, fuel), fn)

idxSort(path, fn) ==
    [callable |-> TRUE, fn |-> FnRecWith("idxSort", path, fn), get |-> NoFn, set |-> NoFn]

\* the functions the macros of the library hand to macro, called as f(obj, key, value)
CallLib(h, d, f, obj, key, value, fuel) ==
    IF f.f = "aliasGet" THEN aliasGet(h, d, f.path, obj, fuel)
    ELSE IF f.f = "aliasSet" THEN aliasSet(h, d, f.path, obj, value, fuel)
    ELSE IF f.f = "idxAliasGet" THEN idxAliasGet(h, d, f.path, obj, fuel)
    ELSE IF f.f = "idxAliasSet" THEN idxAliasSet(h, d, f.path, obj, value, fuel)
    ELSE IF f.f = "deprecatingAliasGet" THEN deprecatingAliasGet(h, d, f.path, obj, key, fuel)
    ELSE IF f.f = "deprecatingAliasSet"
    THEN deprecatingAliasSet(h, d, f.path, obj, key, value, fuel)
    ELSE IF f.f = "readsGet" THEN readsGet(h, d, f.path, f.arg, obj, fuel)
    ELSE IF f.f = "overridableReadsGet" THEN overridableReadsGet(h, d, f.path, obj, fuel)
    ELSE IF f.f = "overridableReadsSet" THEN overridableReadsSet(h, obj, key, value)
    ELSE IF f.f = "filter" THEN filterGetter(h, d, f.path, f.arg, obj, fuel)
    ELSE IF f.f = "map" THEN mapGetter(h, d, f.path, f.arg, obj, fuel)
    ELSE IF f.f = "sort" THEN sortGetter(h, d, f.path, f.arg, obj, fuel)
    ELSE IF f.f = "sum" THEN sumGetter(h, d, f.path, obj, fuel)
    ELSE IF f.f = "diff" THEN diffGetter(h, d, f.path, obj, fuel)
    ELSE IF f.f = "intersect" THEN intersectGetter(h, d, f.path, obj, fuel)
    ELSE IF f.f = "union" THEN unionGetter(h, d, f.path, obj, fuel)
    ELSE IF f.f = "uniqueBy" THEN uniqueByGetter(h, d, f.path, f.arg, obj, fuel)
    ELSE IF f.f = "idxFilter" THEN idxFilterGetter(h, d, f.path, f.arg, obj, fuel)
    ELSE IF f.f = "idxSort" THEN idxSortGetter(h, d, f.path, f.arg, obj, fuel)
    ELSE IF f.f = "max" THEN maxGetter(h, d, f.path, obj, fuel)
    ELSE IF f.f = "min" THEN minGetter(h, d, f.path, obj, fuel)
    ELSE IF f.f = "and" THEN andGetter(h, d, f.path, obj, fuel)
    ELSE IF f.f = "or" THEN orGetter(h, d, f.path, obj, fuel)
    ELSE IF f.f = "empty" THEN emptyGetter(h, d, f.path, obj, fuel)
    ELSE IF f.f = "notEmpty" THEN notEmptyGetter(h, d, f.path, obj, fuel)
    ELSE Throw(h, <<>>)

-----------------------------------------------------------------------------
(* Inputs of the path utilities *)

\* path strings: one to three segments, a word used as a segment, and
\* malformed strings (empty, leading, trailing and doubled separators)
Paths ==
    {<<"a">>, <<"b">>, <<"a", "a">>,
     <<"a", Dot, "a">>, <<"a", Dot, "b">>, <<"b", Dot, "a">>, <<"b", Dot, "b">>,
     <<"a", Dot, "b", Dot, "a">>, <<"b", Dot, "a", Dot, "a">>, <<"a", Dot, "a", Dot, "b">>,
     <<"get">>, <<"a", Dot, "get">>,
     EmptyStr, <<Dot>>, <<Dot, "a">>, <<"a", Dot>>, <<"a", Dot, Dot, "a">>}

\* the paths written through
SetPaths ==
    {<<"a">>, <<"a", Dot, "a">>, <<"a", Dot, "b">>, <<"b", Dot, "a">>,
     <<"a", Dot, "b", Dot, "a">>, <<"b", Dot, "a", Dot, "a">>,
     <<"get">>, <<"a", Dot, "get">>,
     <<Dot>>, <<Dot, "a">>, <<"a", Dot>>}

\* path lists: empty, nested, repeated and unresolvable paths
PathLists ==
    {<<>>,
     <<S("a")>>,
     <<S("a"), S("b")>>,
     <<S("a"), S("a")>>,
     <<<<"a", Dot, "a">>, <<"b", Dot, "a">>>>,
     <<<<"b", Dot, "b">>, <<"a", "a">>, S("a")>>,
     <<<<"a", Dot, "b", Dot, "a">>, <<"a", Dot, "b">>, <<"a", Dot, "a">>>>}

SetVals == {Undef, Num(7), Ref(1), Fn("noop")}

Roots == {Ref(1)}
ReadRoots == Roots \cup {Null}

(* Object graphs the program can be handed.                                *)
(*   HeapNested : plain objects and a Map, null and primitive leaves       *)
(*   HeapMembers: an object with only a set member (the setPath test), an  *)
(*                object with only a get member                            *)
(*   HeapCyclic : an object that refers to itself                          *)
(*   HeapEmpty  : class Foo {} (the getPath test)                          *)
HeapNested ==
    <<Obj("Object", (S("a") :> Ref(2)) @@ (S("b") :> Ref(3)), NoProps),
      Obj("Object", (S("a") :> Num(1)) @@ (S("b") :> Null), NoProps),
      Obj("Map", NoProps, (S("a") :> Ref(2)) @@ (S("b") :> Num(2)))>>

HeapMembers ==
    <<Obj("Object", (S("set") :> Fn("noop")) @@ (S("a") :> Ref(2)), NoProps),
      Obj("Object", (S("get") :> Fn("noop")) @@ (S("a") :> Num(1)), NoProps),
      Obj("Object", (S("a") :> Ref(1)), NoProps)>>

HeapCyclic ==
    <<Obj("Object", (S("a") :> Ref(1)) @@ (S("b") :> Num(0)), NoProps),
      Obj("Object", NoProps, NoProps),
      Obj("Map", NoProps, (S("a") :> Ref(3)))>>

HeapEmpty ==
    <<Obj("Object", NoProps, NoProps),
      Obj("Object", NoProps, NoProps),
      Obj("Map", NoProps, NoProps)>>

InitHeaps == {HeapNested, HeapMembers, HeapCyclic, HeapEmpty}

\* what macro is given: a bare function, or a descriptor with optional get and set
Def(callable, fn, get, set) == [callable |-> callable, fn |-> fn, get |-> get, set |-> set]

\* a class without decorated fields
NoDefs == [k \in {} |-> Def(FALSE, NoFn, NoFn, NoFn)]
NoDescs == [k \in {} |-> decorate(macro(Def(FALSE, NoFn, NoFn, NoFn)), EmptyStr)]

-----------------------------------------------------------------------------
(* The record of the operation just performed *)

Record(op, obj, path, paths, value, r) ==
    [op |-> op, obj |-> obj, path |-> path, paths |-> paths, value |-> value,
     pre |-> heap, log |-> r.log, v |-> r.v, ok |-> r.ok]

\* the call ends with outcome r: the heap it leaves, and the record of it
Done(op, obj, path, paths, value, r) ==
    /\ heap' = r.heap
    /\ last' = Record(op, obj, path, paths, value, r)

NoOp ==
    [op |-> "none", obj |-> Undef, path |-> EmptyStr, paths |-> <<>>, value |-> Undef,
     pre |-> <<>>, log |-> <<>>, v |-> Undef, ok |-> TRUE]

-----------------------------------------------------------------------------
(* The path utilities called on a heap without decorated classes *)

ReadOps == {"getPath", "getPaths", "idxGetPath", "idxGetPaths"}

(* The caller reads after construction and after each write.  No read of   *)
(* this specification changes the heap (PathReadsArePure), so a read that  *)
(* follows a read starts from the heap the first one started from.         *)
CanRead == last.op \notin ReadOps

InitPath ==
    /\ heap \in InitHeaps
    /\ defs = NoDefs
    /\ descs = NoDescs
    /\ last = NoOp
    /\ nwrites = 0
    /\ console = 0
    /\ hits = 0

DoGetPath(o, p) ==
    /\ CanRead
    /\ Done("getPath", o, p, <<>>, Undef,
            getPath(heap, descs, o, p, MaxStack))
    /\ UNCHANGED <<defs, descs, nwrites, console, hits>>

DoGetPaths(o, ps) ==
    /\ CanRead
    /\ Done("getPaths", o, EmptyStr, ps, Undef,
            getPaths(heap, descs, o, ps, MaxStack))
    /\ UNCHANGED <<defs, descs, nwrites, console, hits>>

DoIdxGetPath(o, p) ==
    /\ CanRead
    /\ Done("idxGetPath", o, p, <<>>, Undef,
            idxGetPath(heap, descs, o, p, MaxStack))
    /\ UNCHANGED <<defs, descs, nwrites, console, hits>>

DoIdxGetPaths(o, ps) ==
    /\ CanRead
    /\ Done("idxGetPaths", o, EmptyStr, ps, Undef,
            idxGetPaths(heap, descs, o, ps, MaxStack))
    /\ UNCHANGED <<defs, descs, nwrites, console, hits>>

DoSetPath(o, p, v) ==
    /\ nwrites < MaxWrites
    /\ Done("setPath", o, p, <<>>, v,
            setPath(heap, descs, o, p, v, MaxStack))
    /\ nwrites' = nwrites + 1
    /\ UNCHANGED <<defs, descs, console, hits>>

DoIdxSetPath(o, p, v) ==
    /\ nwrites < MaxWrites
    /\ Done("idxSetPath", o, p, <<>>, v,
            idxSetPath(heap, descs, o, p, v, MaxStack))
    /\ nwrites' = nwrites + 1
    /\ UNCHANGED <<defs, descs, console, hits>>

NextPath ==
    \/ \E o \in ReadRoots, p \in Paths : DoGetPath(o, p)
    \/ \E o \in Roots, ps \in PathLists : DoGetPaths(o, ps)
    \/ \E o \in ReadRoots, p \in Paths : DoIdxGetPath(o, p)
    \/ \E o \in Roots, ps \in PathLists : DoIdxGetPaths(o, ps)
    \/ \E o \in Roots, p \in SetPaths, v \in SetVals : DoSetPath(o, p, v)
    \/ \E o \in Roots, p \in SetPaths, v \in SetVals : DoIdxSetPath(o, p, v)

SpecPath == InitPath /\ [][NextPath]_vars

\* the reads of SpecPath leave the heap as they found it
PathReadsArePure == (last.op \in ReadOps) => (heap = last.pre)

-----------------------------------------------------------------------------
(* A class Foo whose fields bar and baz are decorated with macro(...).     *)
(* The class is defined first (one decorator call per decorated field),    *)
(* then instantiated; after that its fields are read and written.          *)

gFoo == FnRec("gFoo", EmptyStr)
gKey == FnRec("gKey", EmptyStr)
sFoo == FnRec("sFoo", EmptyStr)

\* macro(fn), macro({get}), macro({set}), macro({get, set}), macro({})
MacroDefs ==
    {Def(TRUE, gFoo, NoFn, NoFn),
     Def(TRUE, gKey, NoFn, NoFn),
     Def(FALSE, NoFn, gFoo, NoFn),
     Def(FALSE, NoFn, NoFn, sFoo),
     Def(FALSE, NoFn, gKey, sFoo),
     Def(FALSE, NoFn, NoFn, NoFn)}

DecoratedKeys == {S("bar"), S("baz")}
FieldKeys == {S("foo")} \cup DecoratedKeys
FieldVals == {Num(456), Undef}

\* new Foo(): the field initialiser foo = ...; decorated fields have none
NewFoo(n) == Obj("Foo", (S("foo") :> Num(n)), NoProps)

Instances == {Ref(1), Ref(2)}

InitMacro ==
    /\ heap = <<>>
    /\ defs = NoDefs
    /\ descs = NoDescs
    /\ last = NoOp
    /\ nwrites = 0
    /\ console = 0
    /\ hits = 0

\* @macro(definition) key;  -- the host installs the returned descriptor on Foo.prototype
Install(definition, key) ==
    /\ heap = <<>>
    /\ ~Has(descs, key)
    /\ defs' = Put(defs, key, definition)
    /\ descs' = Put(descs, key, decorate(macro(definition), key))
    /\ UNCHANGED <<heap, last, nwrites, console, hits>>

Construct ==
    /\ heap = <<>>
    /\ heap' = <<NewFoo(123), NewFoo(5)>>
    /\ UNCHANGED <<defs, descs, last, nwrites, console, hits>>

\* o.key
ReadField(o, key) ==
    /\ heap # <<>>
    /\ Done("read", o, key, <<>>, Undef,
            HostGet(heap, descs, o, key, MaxStack))
    /\ UNCHANGED <<defs, descs, nwrites, console, hits>>

\* o.key = v
WriteField(o, key, v) ==
    /\ heap # <<>>
    /\ nwrites < MaxWrites
    /\ Done("write", o, key, <<>>, v,
            HostSet(heap, descs, o, key, v, MaxStack))
    /\ nwrites' = nwrites + 1
    /\ UNCHANGED <<defs, descs, console, hits>>

NextMacro ==
    \/ \E definition \in MacroDefs, key \in DecoratedKeys : Install(definition, key)
    \/ Construct
    \/ \E o \in Instances, key \in FieldKeys : ReadField(o, key)
    \/ \E o \in Instances, key \in FieldKeys, v \in FieldVals : WriteField(o, key, v)

SpecMacro == InitMacro /\ [][NextMacro]_vars

-----------------------------------------------------------------------------
(* Classes whose field y is decorated with a macro of the library.  The    *)
(* class is defined, then instantiated once; after that the fields of the  *)
(* instance are read and written.                                          *)

\* the console output of an operation
Warnings(log) == Len(SelectSeq(log, LAMBDA ev : ev.e = "warn"))

\* the access ends with outcome r; it counts when the field is a decorated one
Access(op, o, key, v, r) ==
    /\ Done(op, o, key, <<>>, v, r)
    /\ console' = console + Warnings(r.log)
    /\ hits' = hits + (IF Has(descs, key) THEN 1 ELSE 0)

\* o.key
GetField(o, key) ==
    /\ heap # <<>>
    /\ Has(descs, key) => hits < MaxHits
    /\ Access("read", o, key, Undef, HostGet(heap, descs, o, key, MaxStack))
    /\ UNCHANGED <<defs, descs, nwrites>>

\* o.key = v
SetField(o, key, v) ==
    /\ heap # <<>>
    /\ nwrites < MaxFieldWrites
    /\ Has(descs, key) => hits < MaxHits
    /\ Access("write", o, key, v, HostSet(heap, descs, o, key, v, MaxStack))
    /\ nwrites' = nwrites + 1
    /\ UNCHANGED <<defs, descs>>

This == Ref(1)
FooBar == <<"foo", Dot, "bar">>

(* class Foo { x = 'bar'; foo = new Map([['bar', 'baz']]); @alias(...) y } *)
(* and the same with foo = new SomeClass(), whose inner is { bar: 'baz' }  *)
AliasDefs ==
    {alias(S("x")), alias(FooBar),
     deprecatingAlias(S("x"), S("deprecated")), deprecatingAlias(FooBar, S("deprecated")),
     idxAlias(S("x")), idxAlias(FooBar)}

AliasKeys == {S("x"), S("y")}
AliasVals == {StrVal(S("qux")), Null}

NewAliasFoo(container) ==
    <<Obj("Foo", (S("x") :> StrVal(S("bar"))) @@ (S("foo") :> Ref(2)), NoProps),
      IF container = "Map"
      THEN Obj("Map", NoProps, (S("bar") :> StrVal(S("baz"))))
      ELSE Obj("SomeClass", (S("inner") :> Ref(3)), NoProps),
      Obj("Object", (S("bar") :> StrVal(S("baz"))), NoProps)>>

ConstructAlias(container) ==
    /\ heap = <<>>
    /\ Has(descs, S("y"))
    /\ heap' = NewAliasFoo(container)
    /\ UNCHANGED <<defs, descs, last, nwrites, console, hits>>

\* the outcome of calling member of the object res evaluates to, after m read it
CallRead(res, m, member, args) ==
    IF ~m.ok \/ ~IsCallable(m.v) THEN Throw(m.heap, res.log \o m.log)
    ELSE After(res.log \o m.log \o <<Ev(member, res.v, args[1], Undef)>>,
               CallMember(m.heap, m.v, res.v, args))

CallOn(res, d, member, args, fuel) ==
    IF ~res.ok THEN res
    ELSE CallRead(res, HostGet(res.heap, d, res.v, S(member), fuel), member, args)

\* o.foo.set('bar', v)
CallFooSet(o, v) ==
    /\ heap # <<>>
    /\ nwrites < MaxFieldWrites
    /\ Done("foo.set", o, FooBar, <<>>, v,
            CallOn(HostGet(heap, descs, o, S("foo"), MaxStack), descs,
                   "set", <<S("bar"), v>>, MaxStack))
    /\ nwrites' = nwrites + 1
    /\ UNCHANGED <<defs, descs, console, hits>>

InitAlias ==
    /\ heap = <<>>
    /\ defs = NoDefs
    /\ descs = NoDescs
    /\ last = NoOp
    /\ nwrites = 0
    /\ console = 0
    /\ hits = 0

NextAlias ==
    \/ \E definition \in AliasDefs : Install(definition, S("y"))
    \/ \E container \in {"Map", "SomeClass"} : ConstructAlias(container)
    \/ \E key \in AliasKeys : GetField(This, key)
    \/ \E key \in AliasKeys, v \in AliasVals : SetField(This, key, v)
    \/ \E v \in AliasVals : CallFooSet(This, v)

SpecAlias == InitAlias /\ [][NextAlias]_vars

-----------------------------------------------------------------------------
(* class Foo { x?; @reads('x', ...) y } and                                *)
(* class Foo { x?; @overridableReads('x') y }, x absent or null at first   *)

ReadsDefs ==
    {reads(S("x"), Undef), reads(S("x"), StrVal(S("bar"))), reads(S("x"), Fn("newArray")),
     overridableReads(S("x"))}

\* values written: falsy ones, a string, and the value the last operation returned
ReadsVals == {Null, Bool(FALSE), Num(0), StrVal(EmptyStr), StrVal(S("qux"))}

NewReadsFoo(x) ==
    <<Obj("Foo", IF x = Undef THEN NoProps ELSE (S("x") :> x), NoProps)>>

ConstructReads(x) ==
    /\ heap = <<>>
    /\ Has(descs, S("y"))
    /\ heap' = NewReadsFoo(x)
    /\ UNCHANGED <<defs, descs, last, nwrites, console, hits>>

NextReads ==
    \/ \E definition \in ReadsDefs : Install(definition, S("y"))
    \/ \E x \in {Undef, Null} : ConstructReads(x)
    \/ \E key \in AliasKeys : GetField(This, key)
    \/ \E key \in AliasKeys, v \in ReadsVals \cup {last.v} : SetField(This, key, v)

SpecReads == InitAlias /\ [][NextReads]_vars

-----------------------------------------------------------------------------
(* class Foo { foo = [...]; bar = [...]; baz = [...]; objs = [{ num }...]; *)
(*             @<array macro> y }                                          *)
(* where a field may hold null or undefined in place of its array.         *)

Nums(s) == Arr([i \in 1..Len(s) |-> Num(s[i])])

FooChoices ==
    {Null, Undef, Nums(<<>>), Nums(<<1>>), Nums(<<1, 2>>), Nums(<<1, 2, 3>>),
     Nums(<<3, 1, 2>>), Nums(<<2, 1, 2>>), Nums(<<1, 2, 2, 3>>)}
BarChoices == {Null, Nums(<<>>), Nums(<<2>>), Nums(<<1, 3>>), Nums(<<3, 2, 2>>)}
BazChoices == {Null, Nums(<<3>>), Nums(<<1, 4>>)}
ObjsChoices ==
    {Null, Arr(<<>>), Arr(<<Ref(6), Ref(7), Ref(8), Ref(9)>>),
     Arr(<<Ref(7), Ref(9), Ref(6), Ref(7)>>)}

NumKey == S("num")
ArrayPaths == <<S("foo"), S("bar"), S("baz")>>

ArrayDefs ==
    {filter(S("foo"), Callback("isOne", EmptyStr, Undef)),
     filterBy(S("objs"), NumKey, Undef), filterBy(S("objs"), NumKey, Num(1)),
     map(S("foo"), Callback("inc", EmptyStr, Undef)), mapBy(S("objs"), NumKey),
     sort(S("foo"), Callback("desc", EmptyStr, Undef)),
     sortBy(S("objs"), NumKey, TRUE), sortBy(S("objs"), NumKey, FALSE),
     sum(S("foo")), unique(S("foo")), uniqueBy(S("objs"), NumKey),
     max(S("foo")), min(S("foo")),
     idxFilter(S("foo"), Callback("isOne", EmptyStr, Undef)),
     idxSort(S("foo"), Callback("desc", EmptyStr, Undef))}
    \cup {diff(SubSeq(ArrayPaths, 1, n)) : n \in 0..3}
    \cup {intersect(SubSeq(ArrayPaths, 1, n)) : n \in 0..3}
    \cup {union(SubSeq(ArrayPaths, 1, n)) : n \in 0..3}

\* the array a field initialiser creates, and what the field holds
ArrayObj(v) == Obj("Array", NoProps, IF v[1] = "array" THEN v[2] ELSE <<>>)
FieldOf(v, id) == IF v[1] = "array" THEN Ref(id) ELSE v
NumObj(n) == Obj("Object", (NumKey :> Num(n)), NoProps)

NewArraysFoo(foo, bar, baz, objs) ==
    <<Obj("Foo", (S("foo") :> FieldOf(foo, 2)) @@ (S("bar") :> FieldOf(bar, 3))
                    @@ (S("baz") :> FieldOf(baz, 4)) @@ (S("objs") :> FieldOf(objs, 5)),
          NoProps),
      ArrayObj(foo), ArrayObj(bar), ArrayObj(baz), ArrayObj(objs),
      NumObj(3), NumObj(1), NumObj(0), NumObj(1)>>

ConstructArrays(foo, bar, baz, objs) ==
    /\ heap = <<>>
    /\ Has(descs, S("y"))
    /\ heap' = NewArraysFoo(foo, bar, baz, objs)
    /\ UNCHANGED <<defs, descs, last, nwrites, console, hits>>

ArrayKeys == {S("y"), S("foo")}

NextArrays ==
    \/ \E definition \in ArrayDefs : Install(definition, S("y"))
    \/ \E foo \in FooChoices, bar \in BarChoices, baz \in BazChoices, objs \in ObjsChoices :
          ConstructArrays(foo, bar, baz, objs)
    \/ \E key \in ArrayKeys : GetField(This, key)

SpecArrays == InitAlias /\ [][NextArrays]_vars

-----------------------------------------------------------------------------
(* A class with one field declared with a logical macro:                   *)
(*   class Foo { x; z = ...; foo = { bar: ... }; @empty('x') y }           *)
(* and the reads and writes of the tests '@and', '@or', '@empty' and       *)
(* '@notEmpty'.  The arrays [] and [1] that the tests assign are the       *)
(* objects 3 and 4.                                                        *)

LogicPaths == {S("x"), FooBar}
LogicPathLists == {<<>>, <<S("x")>>, <<S("x"), S("z")>>, <<S("x"), FooBar>>, <<FooBar, S("z")>>}

LogicDefs ==
    {and(paths) : paths \in LogicPathLists} \cup {or(paths) : paths \in LogicPathLists}
        \cup {empty(path) : path \in LogicPaths} \cup {notEmpty(path) : path \in LogicPaths}

\* the values assigned to x: the falsy values, truthy primitives, [] and [1]
LogicVals ==
    {Undef, Null, Bool(FALSE), Bool(TRUE), Num(0), Num(123), StrVal(EmptyStr),
     StrVal(S("qux")), Ref(3), Ref(4)}

BarVals == {Null, Bool(TRUE), Ref(3)}

NewLogicFoo(z, bar) ==
    <<Obj("Foo", (S("z") :> z) @@ (S("foo") :> Ref(2)), NoProps),
      Obj("Object", (S("bar") :> bar), NoProps),
      Obj("Array", NoProps, <<>>),
      Obj("Array", NoProps, <<Num(1)>>)>>

ConstructLogic(z, bar) ==
    /\ heap = <<>>
    /\ Has(descs, S("y"))
    /\ heap' = NewLogicFoo(z, bar)
    /\ UNCHANGED <<defs, descs, last, nwrites, console, hits>>

NextLogic ==
    \/ \E definition \in LogicDefs : Install(definition, S("y"))
    \/ \E z \in {Bool(TRUE), Bool(FALSE)}, bar \in {Num(0), StrVal(S("baz"))} :
          ConstructLogic(z, bar)
    \/ \E key \in AliasKeys : GetField(This, key)
    \/ \E v \in LogicVals : SetField(This, S("x"), v)
    \/ \E v \in BarVals : SetField(Ref(2), S("bar"), v)

SpecLogic == InitAlias /\ [][NextLogic]_vars

-----------------------------------------------------------------------------
(* A class whose macro fields name each other:                             *)
(*   class Foo { x = 'bar'; @alias('b') a; @alias('c') b; @empty('x') c }  *)
(* Each of a, b and c is declared with alias(p) or empty(p), p one of a,   *)
(* b, c and x, or left undeclared.  A getter that reads a macro field      *)
(* enters that field's getter; the call stack holds MaxStack getters, and  *)
(* the getter that would be the next one faults (RangeError).              *)

ChainKeys == {S("a"), S("b"), S("c")}
ChainPaths == ChainKeys \cup {S("x")}
ChainDefs == {alias(p) : p \in ChainPaths} \cup {empty(p) : p \in ChainPaths}

NewChainFoo == <<Obj("Foo", (S("x") :> StrVal(S("bar"))), NoProps)>>

ConstructChain ==
    /\ heap = <<>>
    /\ defs # NoDefs
    /\ heap' = NewChainFoo
    /\ UNCHANGED <<defs, descs, last, nwrites, console, hits>>

NextChain ==
    \/ \E definition \in ChainDefs, key \in ChainKeys : Install(definition, key)
    \/ ConstructChain
    \/ \E key \in ChainPaths : GetField(This, key)

SpecChain == InitAlias /\ [][NextChain]_vars

-----------------------------------------------------------------------------
(* Two instances of one decorated class:                                   *)
(*   class Foo { x; @alias('x') y }   or   @overridableReads('x') y        *)
(*   let a = new Foo('bar'), b = new Foo('baz')                            *)
(* read and written in any order.  The descriptor of y is the one the      *)
(* decorator installed on Foo.prototype, shared by a and b.                *)

TwoDefs == {alias(S("x")), overridableReads(S("x"))}
TwoInstances == {Ref(1), Ref(2)}

NewTwoFoo ==
    <<Obj("Foo", (S("x") :> StrVal(S("bar"))), NoProps),
      Obj("Foo", (S("x") :> StrVal(S("baz"))), NoProps)>>

ConstructTwo ==
    /\ heap = <<>>
    /\ Has(descs, S("y"))
    /\ heap' = NewTwoFoo
    /\ UNCHANGED <<defs, descs, last, nwrites, console, hits>>

NextTwo ==
    \/ \E definition \in TwoDefs : Install(definition, S("y"))
    \/ ConstructTwo
    \/ \E o \in TwoInstances, key \in AliasKeys : GetField(o, key)
    \/ \E o \in TwoInstances, key \in AliasKeys, v \in AliasVals : SetField(o, key, v)

SpecTwo == InitAlias /\ [][NextTwo]_vars

-----------------------------------------------------------------------------
(* Properties of getPath *)

Segs == split(last.path)

\* cur[k] as the language evaluates it on a value that is not nullish
Prop(h, cur, k) == IF IsNullish(cur) THEN Undef ELSE HostGet(h, descs, cur, k, MaxStack).v

\* the value o.s1.s2. ... .sn reached by n successive property lookups
RECURSIVE Traverse(_, _, _, _)
Traverse(h, o, segs, n) ==
    IF n = 0 THEN o ELSE Prop(h, Traverse(h, o, segs, n - 1), segs[n])

\* every value a lookup is applied to exists
IntermediatesExist(h, o, segs) ==
    \A n \in 0..(Len(segs) - 1) : ~IsNullish(Traverse(h, o, segs, n))

HasCallable(h, cur, member) ==
    ~IsNullish(cur) /\ IsCallable(HostGet(h, descs, cur, S(member), MaxStack).v)

\* no value a lookup is applied to has a callable get member
NoGetOnTraverse(h, o, segs) ==
    \A n \in 0..(Len(segs) - 1) : ~HasCallable(h, Traverse(h, o, segs, n), "get")

(* C1 as stated: whenever every intermediate segment of p exists, getPath  *)
(* (o, p) completes with the value reached by one property lookup per      *)
(* segment, o.s1.s2. ... .sn.                                              *)
C1_AsStated ==
    (last.op = "getPath" /\ IntermediatesExist(last.pre, last.obj, Segs))
        => (last.ok /\ last.v = Traverse(last.pre, last.obj, Segs, Len(Segs)))

(* C1 (amended): whenever every intermediate segment of p exists and no    *)
(* visited value has a callable get member, getPath(o, p) completes with   *)
(* the value o.s1.s2. ... .sn, having done exactly one property lookup per *)
(* segment, in order, each on the value the previous lookup reached, and   *)
(* having changed nothing.                                                 *)
C1_Traversal ==
    (/\ last.op = "getPath"
     /\ IntermediatesExist(last.pre, last.obj, Segs)
     /\ NoGetOnTraverse(last.pre, last.obj, Segs))
        => /\ last.ok
           /\ last.v = Traverse(last.pre, last.obj, Segs, Len(Segs))
           /\ last.log = [n \in 1..Len(Segs) |->
                             Ev("lookup", Traverse(last.pre, last.obj, Segs, n - 1),
                                Segs[n], Undef)]
           /\ heap = last.pre

\* a three-segment path walked through two nested plain objects to a leaf
C1_Witness ==
    /\ last.op = "getPath"
    /\ Len(Segs) = 3
    /\ IntermediatesExist(last.pre, last.obj, Segs)
    /\ NoGetOnTraverse(last.pre, last.obj, Segs)
    /\ last.v = Num(0)

-----------------------------------------------------------------------------
\* the value getPath holds after consuming the first n segments
Reached(h, o, segs, n) == getPathLoop(h, descs, o, SubSeq(segs, 1, n), 1, <<>>, MaxStack)

\* the accesses of a log: property lookups and calls of a get member
Accesses(log) == SelectSeq(log, LAMBDA ev : ev.e \in {"lookup", "get"})

(* C2: when the value reached before some segment of p is null or          *)
(* undefined, getPath(o, p) completes without a fault, its result is that  *)
(* very value (null stays null, undefined stays undefined), and no segment *)
(* from that one on is looked up.                                          *)
C2_NullishStops ==
    (last.op = "getPath") =>
        \A n \in 0..(Len(Segs) - 1) :
            LET r == Reached(last.pre, last.obj, Segs, n)
            IN (r.ok /\ IsNullish(r.v)) =>
                  /\ last.ok
                  /\ last.v = r.v
                  /\ Len(Accesses(last.log)) <= n
                  /\ \A j \in 1..Len(Accesses(last.log)) : Accesses(last.log)[j].k = Segs[j]

\* a.b.a where a.b is null: two segments looked up, the third never, result null
C2_Witness ==
    /\ last.op = "getPath"
    /\ Len(Segs) = 3
    /\ last.ok
    /\ last.v = Null
    /\ Len(Accesses(last.log)) = 2
    /\ ~IsNullish(last.obj)

-----------------------------------------------------------------------------
\* what one step of the traversal yields from the value an access was made on
StepValue(h, ev) ==
    IF HasCallable(h, ev.o, "get")
    THEN CallMember(h, HostGet(h, descs, ev.o, S("get"), MaxStack).v, ev.o, <<ev.k>>).v
    ELSE Prop(h, ev.o, ev.k)

DispatchesOnGet(l) ==
    l.ok =>
        /\ \A j \in 1..Len(l.log) :
              LET ev == l.log[j]
              IN /\ ev.e \in {"lookup", "get"}
                 /\ (ev.e = "get") <=> HasCallable(l.pre, ev.o, "get")
                 /\ ev.k = split(l.path)[j]
                 /\ ev.o = IF j = 1 THEN l.obj ELSE StepValue(l.pre, l.log[j - 1])
        /\ l.v = IF l.log = <<>> THEN l.obj ELSE StepValue(l.pre, l.log[Len(l.log)])

(* C3: at every step of getPath, of the path utilities and of the macro    *)
(* file alike, a visited value with a callable get member is read as       *)
(* current.get(segment) and any other value as current[segment]; the       *)
(* choice is made anew for each visited value.                             *)
C3_GetDispatch ==
    (last.op \in {"getPath", "idxGetPath"}) => DispatchesOnGet(last)

\* the same, of the getPath of src/src/utils/index.ts alone
C3_GetDispatchUtils ==
    (last.op = "getPath") => DispatchesOnGet(last)

\* one path read through a plain object, then a Map, then a plain object
C3_Witness ==
    /\ last.op = "getPath"
    /\ last.ok
    /\ Len(last.log) = 3
    /\ last.log[1].e = "lookup"
    /\ last.log[2].e = "get"
    /\ last.log[3].e = "lookup"
    /\ last.v = Num(1)

-----------------------------------------------------------------------------
(* C4: getPaths(o, P), of the path utilities and of the macro file alike,  *)
(* returns an array as long as P whose i-th element is getPath(o, P[i]),   *)
(* for dotted paths and paths resolving to undefined too, with repeated    *)
(* paths kept.                                                             *)
C4_GetPathsPointwise ==
    (last.op \in {"getPaths", "idxGetPaths"}) =>
        /\ last.ok
        /\ last.v = Arr([i \in 1..Len(last.paths) |->
                            getPath(last.pre, descs, last.obj, last.paths[i], MaxStack).v])

\* the same, of the getPaths of src/src/utils/index.ts alone
C4_GetPathsPointwiseUtils ==
    (last.op = "getPaths") =>
        /\ last.ok
        /\ last.v = Arr([i \in 1..Len(last.paths) |->
                            getPath(last.pre, descs, last.obj, last.paths[i], MaxStack).v])

\* getPaths of a list holding a nested path, an unresolvable path and a plain one
C4_Witness ==
    /\ last.op = "getPaths"
    /\ Len(last.paths) = 3
    /\ last.v = Arr(<<Num(2), Undef, Ref(2)>>)

-----------------------------------------------------------------------------
(* Properties of setPath *)

\* the container of a path: the value reached by all its segments but the last
Container(h, o, path) == Reached(h, o, split(path), Len(split(path)) - 1).v

\* the final key of a path: its last segment
FinalKey(path) == split(path)[Len(split(path))]

IsMap(h, c) == IsObject(c) /\ h[c[2]].proto = "Map"

(* an object that stores what is set on it under the key it is read back   *)
(* from: a Map, or an object with neither a callable get nor a callable    *)
(* set member                                                              *)
Stores(h, c) ==
    /\ IsObject(c)
    /\ \/ /\ IsMap(h, c)
          /\ HostGet(h, descs, c, S("get"), MaxStack).v = Fn("mapGet")
          /\ HostGet(h, descs, c, S("set"), MaxStack).v = Fn("mapSet")
       \/ /\ ~HasCallable(h, c, "get")
          /\ ~HasCallable(h, c, "set")

-----------------------------------------------------------------------------
\* the container setPath resolves: the root for a path without container path
Resolved(h, o, path) ==
    IF substr(path, 0, lastIndexOf(path)) # EmptyStr
    THEN getPath(h, descs, o, substr(path, 0, lastIndexOf(path)), MaxStack).v
    ELSE o

\* the mutations of a log: calls of a set member and direct assignments
Mutations(log) == SelectSeq(log, LAMBDA ev : ev.e \in {"set", "assign"})

-----------------------------------------------------------------------------
\* every segment of the path is a property name
WellFormed(path) == \A n \in 1..Len(split(path)) : split(path)[n] # EmptyStr

(* C7: setPath(o, p, v) with a path p of two or more segments whose        *)
(* container resolves to null or undefined ends in a fault, and the heap,  *)
(* o and every object reachable from it included, is left as it was: no    *)
(* intermediate container is created.                                      *)
C7_NullContainerFaults ==
    (/\ last.op = "setPath"
     /\ WellFormed(last.path)
     /\ Len(Segs) > 1
     /\ Reached(last.pre, last.obj, Segs, Len(Segs) - 1).ok
     /\ IsNullish(Container(last.pre, last.obj, last.path)))
        => /\ ~last.ok
           /\ heap = last.pre
           /\ Mutations(last.log) = <<>>

\* a.b.a where a.b is null: the write faults and a.b is still null
C7_Witness ==
    /\ last.op = "setPath"
    /\ last.path = <<"a", Dot, "b", Dot, "a">>
    /\ last.value = Num(7)
    /\ Container(last.pre, last.obj, last.path) = Null
    /\ ~last.ok
    /\ getPath(heap, descs, last.obj, <<"a", Dot, "b">>, MaxStack).v = Null

-----------------------------------------------------------------------------
(* Properties of macro *)

\* the field read or written is a decorated one
Decorated == last.op \in {"read", "write"} /\ Has(defs, last.path)

\* the getter and the setter a definition supplies, NoFn when it supplies none
GetterOf(definition) == IF definition.callable THEN definition.fn ELSE definition.get
SetterOf(definition) == IF definition.callable THEN NoFn ELSE definition.set

(* C8: reading a decorated field whose definition has a getter returns     *)
(* getter(instance, key) with the instance read and the name of the field  *)
(* read, also when the same definition decorates the other field; the      *)
(* getter is called once and the read does nothing else.                   *)
C8_ReadCallsGetter ==
    (Decorated /\ last.op = "read" /\ GetterOf(defs[last.path]) # NoFn) =>
        LET g == GetterOf(defs[last.path])
            r == CallUser(last.pre, descs, g, last.obj, last.path, Undef, MaxStack - 1)
        IN /\ last.ok = r.ok
           /\ last.v = r.v
           /\ heap = r.heap
           /\ last.log = <<Ev("getter", last.obj, last.path, Fn(g.f))>> \o r.log

\* one getter (target, key) => key on bar and on baz: reading baz yields "baz"
C8_Witness ==
    /\ Decorated
    /\ last.op = "read"
    /\ last.path = S("baz")
    /\ Has(defs, S("bar"))
    /\ defs[S("bar")] = defs[S("baz")]
    /\ GetterOf(defs[S("baz")]) = gKey
    /\ last.v = StrVal(S("baz"))

-----------------------------------------------------------------------------
(* C9: writing to a decorated field whose definition has no setter (a bare *)
(* getter function, or a descriptor without set) ends in a fault, calls    *)
(* nothing, and leaves every instance as it was.                           *)
C9_NoSetterWriteFaults ==
    (Decorated /\ last.op = "write" /\ SetterOf(defs[last.path]) = NoFn) =>
        /\ ~last.ok
        /\ last.log = <<>>
        /\ heap = last.pre

\* @macro(target => target.foo) bar; bar = 456 faults and foo is still 123
C9_Witness ==
    /\ Decorated
    /\ last.op = "write"
    /\ last.path = S("bar")
    /\ defs[S("bar")] = Def(TRUE, gFoo, NoFn, NoFn)
    /\ last.value = Num(456)
    /\ last.obj = Ref(1)
    /\ ~last.ok
    /\ heap[1].props[S("foo")] = Num(123)

-----------------------------------------------------------------------------
SetterOnly(definition) == GetterOf(definition) = NoFn /\ SetterOf(definition) # NoFn

(* C10: for a decorated field whose definition has a setter and no getter, *)
(* a write of v calls setter(instance, key, v) exactly once and does       *)
(* nothing else, and a read, before or after writes, yields undefined,     *)
(* calls nothing and changes nothing.                                      *)
C10_SetterOnly ==
    (Decorated /\ SetterOnly(defs[last.path])) =>
        /\ (last.op = "write") =>
              LET r == CallUser(last.pre, descs, SetterOf(defs[last.path]),
                                last.obj, last.path, last.value, MaxStack - 1)
              IN /\ last.log = <<Ev("setter", last.obj, last.path, last.value)>> \o r.log
                 /\ Len(SelectSeq(last.log, LAMBDA ev : ev.e = "setter")) = 1
                 /\ last.ok = r.ok
                 /\ heap = r.heap
        /\ (last.op = "read") =>
              /\ last.ok
              /\ last.v = Undef
              /\ last.log = <<>>
              /\ heap = last.pre

\* bar of @macro({set}) read after bar = 456 was written through the setter
C10_Witness ==
    /\ Decorated
    /\ last.op = "read"
    /\ last.path = S("bar")
    /\ SetterOnly(defs[S("bar")])
    /\ ~Has(defs, S("baz"))
    /\ nwrites = 1
    /\ heap[last.obj[2]].props[S("foo")] = Num(456)
    /\ last.v = Undef

-----------------------------------------------------------------------------
(* Properties of the aliasing macros *)

\* the instance exists and its field y was declared with definition
DecoratedWith(definition) ==
    heap # <<>> /\ Has(defs, S("y")) /\ defs[S("y")] = definition

\* the field y of the instance was just read, or just written
ReadY == last.op = "read" /\ last.obj = This /\ last.path = S("y")
WroteY == last.op = "write" /\ last.obj = This /\ last.path = S("y")

\* what reading o.key yields in heap h
FieldRead(h, key) == HostGet(h, descs, This, key, MaxStack)

\* the own data property key of the instance
Own(h, key) == Lookup(h[1].props, key)

(* C11: with y declared as alias('x'), in every state reached by writes to *)
(* o.x and to o.y a read of o.y completes with the value of o.x, and a     *)
(* write o.y = v completes and leaves o.x equal to v.                      *)
C11_TwoWayBinding ==
    DecoratedWith(alias(S("x"))) =>
        /\ FieldRead(heap, S("y")).ok
        /\ FieldRead(heap, S("y")).v = Own(heap, S("x"))
        /\ WroteY => (last.ok /\ Own(heap, S("x")) = last.value)

\* x was set to null, then y = 'qux' was written: x and y both read 'qux'
C11_Witness ==
    /\ DecoratedWith(alias(S("x")))
    /\ WroteY
    /\ nwrites = 2
    /\ Own(last.pre, S("x")) = Null
    /\ last.value = StrVal(S("qux"))
    /\ Own(heap, S("x")) = StrVal(S("qux"))
    /\ FieldRead(heap, S("y")).v = StrVal(S("qux"))

-----------------------------------------------------------------------------
\* o.foo.get('bar') in heap h
FooGet(h) ==
    CallOn(HostGet(h, descs, This, S("foo"), MaxStack), descs, "get", <<S("bar")>>, MaxStack)

\* the alias y reads what foo.get('bar') returns, and a write to it goes through foo.set
ReadsThroughGet ==
    /\ FieldRead(heap, S("y")).ok
    /\ FieldRead(heap, S("y")).v = FooGet(heap).v
    /\ WroteY => /\ last.ok
                 /\ FooGet(heap).v = last.value
                 /\ Mutations(last.log) = <<Ev("set", Ref(2), S("bar"), last.value)>>

(* C12: with y declared as alias('foo.bar'), by the alias of the macro     *)
(* file or by the alias of src/src/index.ts, and foo a Map or an object    *)
(* with get and set methods, in every state reached by writes through the  *)
(* alias and by foo.set('bar', ...) calls a read of y yields what          *)
(* foo.get('bar') returns, and a write to y is a call foo.set('bar', v).   *)
C12_MapLikeAlias ==
    (DecoratedWith(alias(FooBar)) \/ DecoratedWith(idxAlias(FooBar))) => ReadsThroughGet

\* the same, of the alias of src/unnamed/part_000 alone
C12_MapLikeAliasMacro ==
    DecoratedWith(alias(FooBar)) => ReadsThroughGet

\* foo.set('bar', null) after y = 'qux' on a SomeClass container: y reads null
C12_Witness ==
    /\ DecoratedWith(alias(FooBar))
    /\ heap[2].proto = "SomeClass"
    /\ last.op = "foo.set"
    /\ last.value = Null
    /\ FooGet(last.pre).v = StrVal(S("qux"))
    /\ FieldRead(heap, S("y")).v = Null

-----------------------------------------------------------------------------
Deprecating(path) == DecoratedWith(deprecatingAlias(path, S("deprecated")))

(* C13: with y declared as deprecatingAlias(p, msg), every read and every  *)
(* write of y calls the getter or setter, which logs exactly one warning   *)
(* and then does what alias(p) does,                                       *)
(* and nothing else logs: the number of warnings equals the number of      *)
(* reads and writes of y so far.                                           *)
C13_OneWarningPerAccess ==
    \A path \in {S("x"), FooBar} :
        Deprecating(path) =>
            /\ console = hits
            /\ ReadY =>
                  /\ Tail(last.log) = Warn(This, S("y"), "got")
                                   \o aliasGet(last.pre, descs, path, This, MaxStack - 1).log
                  /\ last.v = aliasGet(last.pre, descs, path, This, MaxStack - 1).v
                  /\ heap = last.pre
            /\ WroteY =>
                  /\ Tail(last.log) = Warn(This, S("y"), "set")
                                   \o aliasSet(last.pre, descs, path, This, last.value,
                                               MaxStack - 1).log
                  /\ heap = aliasSet(last.pre, descs, path, This, last.value,
                                     MaxStack - 1).heap
            /\ (last.op \in {"read", "write"} /\ last.path = S("x"))
                  => Warnings(last.log) = 0

\* two writes, one of them to x, and two accesses of y: two warnings
C13_Witness ==
    /\ Deprecating(S("x"))
    /\ ReadY
    /\ nwrites = 2
    /\ hits = 2
    /\ console = 2
    /\ last.v = StrVal(S("qux"))

-----------------------------------------------------------------------------
(* Properties of reads and overridableReads *)

(* C14: with y declared as reads('x', d), d not a function, a read of y    *)
(* yields d when x is null or undefined and x itself for every other       *)
(* value of x, the falsy false, 0 and '' included, whatever x held before. *)
C14_DefaultOnlyForNullish ==
    \A d \in {Undef, StrVal(S("bar"))} :
        DecoratedWith(reads(S("x"), d)) =>
            /\ FieldRead(heap, S("y")).ok
            /\ FieldRead(heap, S("y")).v
                  = IF Own(heap, S("x")) \in {Null, Undef} THEN d ELSE Own(heap, S("x"))
            /\ FieldRead(heap, S("y")).heap = heap

\* x, absent at first, was set to 0: y read 'bar' before and reads 0 now
C14_Witness ==
    /\ DecoratedWith(reads(S("x"), StrVal(S("bar"))))
    /\ last.op = "write"
    /\ last.path = S("x")
    /\ last.value = Num(0)
    /\ FieldRead(last.pre, S("y")).v = StrVal(S("bar"))
    /\ FieldRead(heap, S("y")).v = Num(0)

-----------------------------------------------------------------------------
\* the calls of the default function in a log
DefaultCalls(log) == SelectSeq(log, LAMBDA ev : ev.e = "call")

(* C15: with y declared as reads('x', () => []), a read of y with x null   *)
(* or undefined calls the function once and returns the array that call    *)
(* created, an object no earlier read returned, and stores nothing on the  *)
(* instance; a read with any other x does not call the function and        *)
(* returns x.                                                              *)
C15_FreshDefaultPerRead ==
    (DecoratedWith(reads(S("x"), Fn("newArray"))) /\ ReadY) =>
        IF Own(last.pre, S("x")) \in {Null, Undef}
        THEN /\ last.ok
             /\ Len(DefaultCalls(last.log)) = 1
             /\ last.v = Ref(Len(last.pre) + 1)
             /\ heap = Append(last.pre, Obj("Array", NoProps, <<>>))
        ELSE /\ last.ok
             /\ DefaultCalls(last.log) = <<>>
             /\ last.v = Own(last.pre, S("x"))
             /\ heap = last.pre

\* the second read with x undefined: a second array, not the one read first
C15_Witness ==
    /\ DecoratedWith(reads(S("x"), Fn("newArray")))
    /\ ReadY
    /\ hits = 2
    /\ nwrites = 0
    /\ Len(heap) = 3
    /\ heap[2].proto = "Array"
    /\ last.v = Ref(3)

-----------------------------------------------------------------------------
\* y has been written: it is an own property of the instance
Overridden(h) == Has(h[1].props, S("y"))

(* C16: with y declared as overridableReads(p): while y has not been       *)
(* written a read of y is getPath(o, p); a write y = v completes, leaves   *)
(* the value at p as it was and makes y read v; and once y has been        *)
(* written, what y reads changes only by a write to y, whatever is         *)
(* written at p.                                                           *)
C16_OverrideSticks ==
    /\ [](DecoratedWith(overridableReads(S("x"))) =>
            /\ ~Overridden(heap) =>
                  /\ FieldRead(heap, S("y")).ok
                  /\ FieldRead(heap, S("y")).v
                        = getPath(heap, descs, This, S("x"), MaxStack).v
            /\ WroteY =>
                  /\ last.ok
                  /\ getPath(heap, descs, This, S("x"), MaxStack).v
                        = getPath(last.pre, descs, This, S("x"), MaxStack).v
                  /\ FieldRead(heap, S("y")).v = last.value)
    /\ [][(DecoratedWith(overridableReads(S("x"))) /\ Overridden(heap)) =>
            \/ FieldRead(heap', S("y")).v = FieldRead(heap, S("y")).v
            \/ /\ last'.op = "write"
               /\ last'.path = S("y")
               /\ FieldRead(heap', S("y")).v = last'.value]_vars

\* y = 'qux', then x = 0: x reads 0 and y still reads 'qux'
C16_Witness ==
    /\ DecoratedWith(overridableReads(S("x")))
    /\ last.op = "write"
    /\ last.path = S("x")
    /\ last.value = Num(0)
    /\ nwrites = 2
    /\ Overridden(last.pre)
    /\ FieldRead(heap, S("x")).v = Num(0)
    /\ FieldRead(heap, S("y")).v = StrVal(S("qux"))

-----------------------------------------------------------------------------
(* Properties of the array macros *)

\* the elements of the array the field key holds; none when it holds null or undefined
FieldElems(h, key) == IF IsNullish(Own(h, key)) THEN <<>> ELSE h[Own(h, key)[2]].entries

\* the elements of an array that was read, any other value as it is
Contents(h, v) == IF IsArray(h, v) THEN Elems(h, v) ELSE v

\* the heap in which every field holding null or undefined holds an empty array
NullsAsEmpty(h) ==
    [h EXCEPT ![1].props =
        [k \in DOMAIN @ |->
            IF ~IsNullish(@[k]) THEN @[k]
            ELSE IF k = S("foo") THEN Ref(2)
            ELSE IF k = S("bar") THEN Ref(3)
            ELSE IF k = S("baz") THEN Ref(4)
            ELSE Ref(5)]]

\* the macro y was declared with, and the path or paths it was given
MacroOfY == defs[S("y")].fn.f
PathsOfY == defs[S("y")].fn.path

\* some path of the macro resolves to null or undefined
SomeNullOperand(h) ==
    IF MacroOfY \in {"diff", "intersect", "union"}
    THEN \E i \in 1..Len(PathsOfY) : IsNullish(Own(h, PathsOfY[i]))
    ELSE IsNullish(Own(h, PathsOfY))

ReadsNullAsEmpty ==
    (ReadY /\ SomeNullOperand(last.pre)) =>
        /\ last.ok
        /\ Contents(heap, last.v)
              = Contents(NullsAsEmpty(last.pre), FieldRead(NullsAsEmpty(last.pre), S("y")).v)
        /\ MacroOfY \in {"filter", "idxFilter", "map", "sort", "idxSort", "uniqueBy"}
              => last.v = Arr(<<>>)
        /\ (MacroOfY = "union" /\ Len(PathsOfY) = 1) => last.v = Arr(<<>>)
        /\ MacroOfY = "sum" => last.v = Num(0)
        /\ MacroOfY = "intersect" => Contents(heap, last.v) = <<>>

(* C17: a read of a field declared with an array macro, of the macro file  *)
(* or of src/src/index.ts, one of whose paths resolves to null or          *)
(* undefined completes and yields what it yields when that path holds an   *)
(* empty array: [] for filter, filterBy, map, mapBy, sort, sortBy, unique  *)
(* and uniqueBy, 0 for sum, [] for intersect, and for diff and union the   *)
(* result of the other operands.                                           *)
C17_NullAsEmpty ==
    (heap # <<>> /\ Has(defs, S("y"))) => ReadsNullAsEmpty

\* the same, of the array macros of src/unnamed/part_000 alone
C17_NullAsEmptyMacro ==
    (heap # <<>> /\ Has(defs, S("y")) /\ MacroOfY \notin {"idxFilter", "idxSort"})
        => ReadsNullAsEmpty

-----------------------------------------------------------------------------
SortsY == heap # <<>> /\ Has(defs, S("y")) /\ MacroOfY \in {"sort", "idxSort"}

KeepsSource ==
    ReadY =>
        /\ heap = last.pre
        /\ last.ok => (last.v[1] = "array" /\ last.v # Own(last.pre, PathsOfY))

(* C18: a read of a field declared with sort(p, cmp) or sortBy(p, key), of *)
(* the macro file or of src/src/index.ts, leaves the array at p with the   *)
(* same elements in the same order, and every other object as it was, and  *)
(* yields a new array, not the one at p.                                   *)
C18_SortKeepsSource ==
    SortsY => KeepsSource

\* the same, of the sort and sortBy of src/unnamed/part_000 alone
C18_SortKeepsSourceMacro ==
    (SortsY /\ MacroOfY = "sort") => KeepsSource

-----------------------------------------------------------------------------
\* the elements of the arrays at the paths of the macro, in the order of the paths
Operand(h, i) == FieldElems(h, PathsOfY[i])

Occurs(v, elems) == \E j \in 1..Len(elems) : elems[j] = v

(* C19: a read of a field declared with diff(p1, ..., pn), n >= 1, yields  *)
(* the elements of the array at p1, in their order and with their          *)
(* duplicates, that occur in none of the arrays at p2..pn, so the whole    *)
(* first array when n = 1, and changes no array.                           *)
C19_Diff ==
    (heap # <<>> /\ Has(defs, S("y")) /\ MacroOfY = "diff" /\ ReadY /\ Len(PathsOfY) >= 1) =>
        /\ last.ok
        /\ Contents(heap, last.v)
              = SelectSeq(Operand(last.pre, 1),
                          LAMBDA v : \A i \in 2..Len(PathsOfY) : ~Occurs(v, Operand(last.pre, i)))
        /\ heap = last.pre

\* [1, 2, 2, 3] minus [1, 3] minus [3]: both 2s are read, in place
C19_Witness ==
    /\ heap # <<>>
    /\ Has(defs, S("y"))
    /\ MacroOfY = "diff"
    /\ ReadY
    /\ Len(PathsOfY) = 3
    /\ Operand(last.pre, 1) = <<Num(1), Num(2), Num(2), Num(3)>>
    /\ Operand(last.pre, 2) = <<Num(1), Num(3)>>
    /\ Operand(last.pre, 3) = <<Num(3)>>
    /\ last.v = Arr(<<Num(2), Num(2)>>)

-----------------------------------------------------------------------------
(* C20: a read of a field declared with intersect(p1, ..., pn), n >= 1,    *)
(* yields exactly the elements of the array at p1, in their order, that    *)
(* occur in every one of the arrays at p2..pn; the result is empty when    *)
(* any operand is empty.                                                   *)
C20_Intersect ==
    (/\ heap # <<>>
     /\ Has(defs, S("y"))
     /\ MacroOfY = "intersect"
     /\ ReadY
     /\ Len(PathsOfY) >= 1) =>
        /\ last.ok
        /\ Contents(heap, last.v)
              = SelectSeq(Operand(last.pre, 1),
                          LAMBDA v : \A i \in 2..Len(PathsOfY) : Occurs(v, Operand(last.pre, i)))
        /\ (\E i \in 1..Len(PathsOfY) : Operand(last.pre, i) = <<>>)
              => Contents(heap, last.v) = <<>>
        /\ heap = last.pre

\* [3, 1, 2] with [1, 3] and [1, 4]: only 1 occurs in all three
C20_Witness ==
    /\ heap # <<>>
    /\ Has(defs, S("y"))
    /\ MacroOfY = "intersect"
    /\ ReadY
    /\ Len(PathsOfY) = 3
    /\ Operand(last.pre, 1) = <<Num(3), Num(1), Num(2)>>
    /\ Operand(last.pre, 2) = <<Num(1), Num(3)>>
    /\ Operand(last.pre, 3) = <<Num(1), Num(4)>>
    /\ last.v = Arr(<<Num(1)>>)

-----------------------------------------------------------------------------
\* the arrays at the paths of the macro, one after the other
RECURSIVE Concat(_, _)
Concat(h, i) ==
    IF i > Len(PathsOfY) THEN <<>> ELSE Operand(h, i) \o Concat(h, i + 1)

\* the least index at which v occurs in elems
FirstAt(v, elems) == CHOOSE j \in 1..Len(elems) : elems[j] = v /\ \A k \in 1..(j - 1) : elems[k] # v

NoDuplicates(elems) == \A i, j \in 1..Len(elems) : elems[i] = elems[j] => i = j

(* C21: a read of a field declared with union(p1, ..., pn), or with        *)
(* unique(p), which is union(p), yields a new array without duplicates     *)
(* that holds exactly the values occurring in some array at p1..pn,        *)
(* ordered by their first occurrence in the concatenation of those arrays; *)
(* deduplicating the result again yields the result.                       *)
C21_Union ==
    (heap # <<>> /\ Has(defs, S("y")) /\ MacroOfY = "union" /\ ReadY) =>
        /\ last.ok
        /\ last.v[1] = "array"
        /\ NoDuplicates(last.v[2])
        /\ setFrom(last.v[2]) = setFrom(Concat(last.pre, 1))
        /\ \A i, j \in 1..Len(last.v[2]) :
              i < j => FirstAt(last.v[2][i], Concat(last.pre, 1))
                          < FirstAt(last.v[2][j], Concat(last.pre, 1))
        /\ AddAll(<<>>, last.v[2]) = last.v[2]
        /\ heap = last.pre

\* [1, 2, 2, 3], [3, 2, 2] and [1, 4] read [1, 2, 3, 4]
C21_Witness ==
    /\ heap # <<>>
    /\ Has(defs, S("y"))
    /\ MacroOfY = "union"
    /\ ReadY
    /\ Len(PathsOfY) = 3
    /\ Operand(last.pre, 1) = <<Num(1), Num(2), Num(2), Num(3)>>
    /\ Operand(last.pre, 2) = <<Num(3), Num(2), Num(2)>>
    /\ Operand(last.pre, 3) = <<Num(1), Num(4)>>
    /\ last.v = Arr(<<Num(1), Num(2), Num(3), Num(4)>>)

\* unique('foo') of [2, 1, 2] reads [2, 1]
C21_UniqueWitness ==
    /\ DecoratedWith(unique(S("foo")))
    /\ ReadY
    /\ Operand(last.pre, 1) = <<Num(2), Num(1), Num(2)>>
    /\ last.v = Arr(<<Num(2), Num(1)>>)

-----------------------------------------------------------------------------
\* element[k] of the i-th element of the array at the path of the macro
KeyAt(h, i) == ElemProp(h, FieldElems(h, PathsOfY)[i], defs[S("y")].fn.arg)

\* the indices of the elements that are the first with their k value
FirstOfKey(h) ==
    SelectSeq([i \in 1..Len(FieldElems(h, PathsOfY)) |-> i],
              LAMBDA i : \A j \in 1..(i - 1) : KeyAt(h, j) # KeyAt(h, i))

(* C22: a read of a field declared with uniqueBy(p, k) yields the elements *)
(* of the array at p, in source order, that are the first with their value *)
(* of element[k]: no two elements of the result share a k value and every  *)
(* k value of the source is that of some element of the result.            *)
C22_UniqueBy ==
    (heap # <<>> /\ Has(defs, S("y")) /\ MacroOfY = "uniqueBy" /\ ReadY) =>
        /\ last.ok
        /\ last.v = Arr([n \in 1..Len(FirstOfKey(last.pre)) |->
                            FieldElems(last.pre, PathsOfY)[FirstOfKey(last.pre)[n]]])
        /\ \A i, j \in 1..Len(last.v[2]) :
              ElemProp(heap, last.v[2][i], NumKey) = ElemProp(heap, last.v[2][j], NumKey)
                  => i = j
        /\ {ElemProp(heap, last.v[2][i], NumKey) : i \in 1..Len(last.v[2])}
              = {KeyAt(last.pre, i) : i \in 1..Len(FieldElems(last.pre, PathsOfY))}
        /\ heap = last.pre

\* [{num: 3}, {num: 1}, {num: 0}, {num: 1}] reads the first three elements
C22_Witness ==
    /\ DecoratedWith(uniqueBy(S("objs"), NumKey))
    /\ ReadY
    /\ FieldElems(last.pre, S("objs")) = <<Ref(6), Ref(7), Ref(8), Ref(9)>>
    /\ last.v = Arr(<<Ref(6), Ref(7), Ref(8)>>)

-----------------------------------------------------------------------------
\* a < b on the integers and the two infinities
NumLess(a, b) ==
    \/ a[1] = "number" /\ b[1] = "number" /\ a[2] < b[2]
    \/ a = NegInfinity /\ b \in {Infinity} \cup {Num(n) : n \in -1..5}
    \/ b = Infinity /\ a[1] = "number"

\* what max('foo') and min('foo') read in heap h
MaxOfFoo(h) == maxGetter(h, descs, S("foo"), This, MaxStack).v
MinOfFoo(h) == minGetter(h, descs, S("foo"), This, MaxStack).v

(* C25: a read of a field declared with max(p), or min(p), over an array   *)
(* of integers yields an element of the array that no element exceeds, or  *)
(* that exceeds no element; over an empty array and over a path resolving  *)
(* to null or undefined max yields -Infinity and min yields Infinity, and  *)
(* max(p) < min(p) holds exactly then.                                     *)
C25_MaxMin ==
    (heap # <<>> /\ Has(defs, S("y")) /\ MacroOfY \in {"max", "min"}) =>
        /\ ReadY =>
              /\ last.ok
              /\ heap = last.pre
              /\ FieldElems(last.pre, PathsOfY) = <<>>
                    => last.v = (IF MacroOfY = "max" THEN NegInfinity ELSE Infinity)
              /\ FieldElems(last.pre, PathsOfY) # <<>>
                    => /\ Occurs(last.v, FieldElems(last.pre, PathsOfY))
                       /\ \A i \in 1..Len(FieldElems(last.pre, PathsOfY)) :
                             IF MacroOfY = "max"
                             THEN FieldElems(last.pre, PathsOfY)[i][2] <= last.v[2]
                             ELSE last.v[2] <= FieldElems(last.pre, PathsOfY)[i][2]
        /\ NumLess(MaxOfFoo(heap), MinOfFoo(heap)) <=> FieldElems(heap, S("foo")) = <<>>

\* max of [3, 1, 2] reads 3
C25_Witness ==
    /\ DecoratedWith(max(S("foo")))
    /\ ReadY
    /\ FieldElems(last.pre, S("foo")) = <<Num(3), Num(1), Num(2)>>
    /\ last.v = Num(3)

\* min of a path holding null reads Infinity, above the -Infinity of max
C25_EmptyWitness ==
    /\ DecoratedWith(min(S("foo")))
    /\ ReadY
    /\ Own(last.pre, S("foo")) = Null
    /\ last.v = Infinity
    /\ MaxOfFoo(heap) = NegInfinity

-----------------------------------------------------------------------------
(* Properties of the logical macros *)

\* the value at a path of the instance: o.x, o.z or o.foo.bar
PlainValue(h, path) ==
    IF path = FooBar THEN Lookup(h[2].props, S("bar")) ELSE Lookup(h[1].props, path)

Truthy(v) == v \notin {Undef, Null, Bool(FALSE), Num(0), StrVal(EmptyStr)}

AllTruthy(h) == \A i \in 1..Len(PathsOfY) : Truthy(PlainValue(h, PathsOfY[i]))
SomeTruthy(h) == \E i \in 1..Len(PathsOfY) : Truthy(PlainValue(h, PathsOfY[i]))

(* C23: a read of a field declared with and(...P) yields a truthy value    *)
(* exactly when every path of P holds a truthy value, and true when P is   *)
(* empty; a read of a field declared with or(...P) yields a truthy value   *)
(* exactly when some path holds a truthy value, and false when P is empty; *)
(* for one-segment paths and for the dotted path foo.bar alike.            *)
C23_AndOr ==
    (heap # <<>> /\ Has(defs, S("y")) /\ MacroOfY \in {"and", "or"} /\ ReadY) =>
        /\ last.ok
        /\ MacroOfY = "and" =>
              /\ Truthy(last.v) <=> AllTruthy(last.pre)
              /\ PathsOfY = <<>> => last.v = Bool(TRUE)
        /\ MacroOfY = "or" =>
              /\ Truthy(last.v) <=> SomeTruthy(last.pre)
              /\ PathsOfY = <<>> => last.v = Bool(FALSE)

\* and('x', 'foo.bar') with x = 0 written and foo.bar = true reads a falsy value
C23_Witness ==
    /\ DecoratedWith(and(<<S("x"), FooBar>>))
    /\ ReadY
    /\ PlainValue(last.pre, S("x")) = Num(0)
    /\ PlainValue(last.pre, FooBar) = Bool(TRUE)
    /\ ~Truthy(last.v)

\* or('x', 'foo.bar') with x undefined and foo.bar = [] reads a truthy value
C23_OrWitness ==
    /\ DecoratedWith(or(<<S("x"), FooBar>>))
    /\ ReadY
    /\ PlainValue(last.pre, S("x")) = Undef
    /\ PlainValue(last.pre, FooBar) = Ref(3)
    /\ Truthy(last.v)

-----------------------------------------------------------------------------
\* falsy, or an array of length 0
FalsyOrEmptyArray(h, v) ==
    ~Truthy(v) \/ (v[1] = "object" /\ h[v[2]].proto = "Array" /\ h[v[2]].entries = <<>>)

(* C24: a read of a field declared with empty(p) yields true exactly when  *)
(* the value at p is falsy or an array of length 0, a read of a field      *)
(* declared with notEmpty(p) yields the negation, and in every state       *)
(* exactly one of empty(p) and notEmpty(p) is true of the instance.        *)
C24_EmptyNotEmpty ==
    (heap # <<>> /\ Has(defs, S("y")) /\ MacroOfY \in {"empty", "notEmpty"}) =>
        /\ ReadY =>
              /\ last.ok
              /\ MacroOfY = "empty"
                    => last.v = Bool(FalsyOrEmptyArray(last.pre, PlainValue(last.pre, PathsOfY)))
              /\ MacroOfY = "notEmpty"
                    => last.v = Bool(~FalsyOrEmptyArray(last.pre, PlainValue(last.pre, PathsOfY)))
        /\ \A path \in LogicPaths :
              /\ emptyGetter(heap, descs, path, This, MaxStack).v \in {Bool(TRUE), Bool(FALSE)}
              /\ notEmptyGetter(heap, descs, path, This, MaxStack).v
                    = Bool(emptyGetter(heap, descs, path, This, MaxStack).v = Bool(FALSE))

\* empty('x') after x = [] reads true
C24_Witness ==
    /\ DecoratedWith(empty(S("x")))
    /\ ReadY
    /\ PlainValue(last.pre, S("x")) = Ref(3)
    /\ last.v = Bool(TRUE)

-----------------------------------------------------------------------------
\* the least index whose path holds a falsy (truthy) value
FirstFalsy(h) ==
    CHOOSE i \in 1..Len(PathsOfY) :
        /\ ~Truthy(PlainValue(h, PathsOfY[i]))
        /\ \A j \in 1..(i - 1) : Truthy(PlainValue(h, PathsOfY[j]))
FirstTruthy(h) ==
    CHOOSE i \in 1..Len(PathsOfY) :
        /\ Truthy(PlainValue(h, PathsOfY[i]))
        /\ \A j \in 1..(i - 1) : ~Truthy(PlainValue(h, PathsOfY[j]))

\* what the macro of y yields from the values the heap h holds
CurrentValue(h) ==
    IF MacroOfY = "empty" THEN Bool(FalsyOrEmptyArray(h, PlainValue(h, PathsOfY)))
    ELSE IF MacroOfY = "notEmpty" THEN Bool(~FalsyOrEmptyArray(h, PlainValue(h, PathsOfY)))
    ELSE IF MacroOfY = "and" THEN
        IF PathsOfY = <<>> THEN Bool(TRUE)
        ELSE IF ~AllTruthy(h) THEN PlainValue(h, PathsOfY[FirstFalsy(h)])
        ELSE PlainValue(h, PathsOfY[Len(PathsOfY)])
    ELSE
        IF PathsOfY = <<>> THEN Bool(FALSE)
        ELSE IF SomeTruthy(h) THEN PlainValue(h, PathsOfY[FirstTruthy(h)])
        ELSE PlainValue(h, PathsOfY[Len(PathsOfY)])

(* C26: in every state reached by writes to the properties the paths of a  *)
(* macro field name and by reads, a read of the field yields the value of  *)
(* the macro on the values those properties hold at the read, and stores   *)
(* nothing: the instance and every object are after the read as before.    *)
C26_RecomputedOnRead ==
    (heap # <<>> /\ Has(defs, S("y")) /\ ReadY) =>
        /\ last.ok
        /\ last.v = CurrentValue(last.pre)
        /\ heap = last.pre

\* empty('x'), true of the new instance, reads false at the second read, after x = [1]
C26_Witness ==
    /\ DecoratedWith(empty(S("x")))
    /\ ReadY
    /\ hits = 2
    /\ nwrites >= 1
    /\ PlainValue(heap, S("x")) = Ref(4)
    /\ last.v = Bool(FALSE)

-----------------------------------------------------------------------------
(* Frame properties of the macros *)

\* every object of the heap before the operation is in the heap after it, unchanged
ObjectsUnchanged == Len(heap) >= Len(last.pre) /\ SubSeq(heap, 1, Len(last.pre)) = last.pre

\* a setter was handed to macro for y
HasSetter == ~defs[S("y")].callable /\ defs[S("y")].set # NoFn

ReadChangesNothing ==
    /\ ReadY => ObjectsUnchanged
    /\ (WroteY /\ ~HasSetter) => heap = last.pre
    /\ Warnings(last.log) > 0
          => /\ (ReadY \/ WroteY)
             /\ defs[S("y")].get.f = "deprecatingAliasGet"

(* C27: a read of a field declared with a built-in macro, of the macro     *)
(* file or of src/src/index.ts, leaves every field of the instance and     *)
(* every array and object as it was; a write to a field whose macro has no *)
(* setter changes nothing; a warning is logged only by an access of a      *)
(* field declared with deprecatingAlias.                                   *)
C27_ReadChangesNothing ==
    (heap # <<>> /\ Has(defs, S("y"))) => ReadChangesNothing

\* the same, of the macros of src/unnamed/part_000 alone
C27_ReadChangesNothingMacro ==
    (heap # <<>> /\ Has(defs, S("y")) /\ MacroOfY \notin {"idxFilter", "idxSort"})
        => ReadChangesNothing

-----------------------------------------------------------------------------
(* Macro fields that read macro fields *)

\* the path the macro of the field k was given
PathOf(k) == IF defs[k].callable THEN defs[k].fn.path ELSE defs[k].get.path

\* following the paths from k leads out of the macro fields within n steps
RECURSIVE LeadsOut(_, _)
LeadsOut(k, n) ==
    IF ~Has(defs, k) THEN TRUE
    ELSE IF n = 0 THEN FALSE
    ELSE LeadsOut(PathOf(k), n - 1)

Acyclic(k) == LeadsOut(k, Cardinality(ChainKeys))

GetterCalls(log) == Len(SelectSeq(log, LAMBDA ev : ev.e = "getter"))

ReadMacroField == heap # <<>> /\ last.op = "read" /\ Has(defs, last.path)

(* C28: a read of a macro field from which the paths lead, through macro   *)
(* fields, to a field that is not a macro field completes with a value; a  *)
(* read of a macro field on a cycle of paths (a reads b and b reads a, or  *)
(* a reads a) enters getters until the stack is full and faults, without a *)
(* value and without a change.                                             *)
C28_CyclesOverflow ==
    ReadMacroField =>
        /\ Acyclic(last.path) =>
              /\ last.ok
              /\ GetterCalls(last.log) <= Cardinality(ChainKeys)
        /\ ~Acyclic(last.path) =>
              /\ ~last.ok
              /\ GetterCalls(last.log) = MaxStack
              /\ heap = last.pre

\* a reads b and b reads a: the read of a faults with the stack full
C28_Witness ==
    /\ ReadMacroField
    /\ last.path = S("a")
    /\ PathOf(S("a")) = S("b")
    /\ Has(defs, S("b"))
    /\ PathOf(S("b")) = S("a")
    /\ ~last.ok
    /\ GetterCalls(last.log) = MaxStack

\* a reads b, b reads c, c reads x: the read of a yields the value of x
C28_ChainWitness ==
    /\ ReadMacroField
    /\ last.path = S("a")
    /\ defs[S("a")] = alias(S("b"))
    /\ Has(defs, S("b")) /\ defs[S("b")] = alias(S("c"))
    /\ Has(defs, S("c")) /\ defs[S("c")] = alias(S("x"))
    /\ last.ok
    /\ last.v = StrVal(S("bar"))

-----------------------------------------------------------------------------
(* Instances of one decorated class *)

Other(o) == IF o = Ref(1) THEN Ref(2) ELSE Ref(1)

\* the own properties of the instance o in heap h
PropsOf(h, o) == h[o[2]].props

WroteYOf == last.op = "write" /\ last.path = S("y")

(* C29: with y declared as alias('x') or overridableReads('x') and two     *)
(* instances a and b, a read or a write on one instance leaves the other   *)
(* as it was; a write a.y = v through the alias sets a.x alone, a write to *)
(* the overridableReads field defines y on a alone and leaves a.x; and     *)
(* every instance whose y was not overridden reads its own x through y.    *)
C29_InstancesIndependent ==
    (Len(heap) = 2 /\ Has(defs, S("y"))) =>
        /\ last.op \in {"read", "write"} =>
              PropsOf(heap, Other(last.obj)) = PropsOf(last.pre, Other(last.obj))
        /\ (WroteYOf /\ defs[S("y")] = alias(S("x"))) =>
              /\ last.ok
              /\ PropsOf(heap, last.obj) = Put(PropsOf(last.pre, last.obj), S("x"), last.value)
        /\ (WroteYOf /\ defs[S("y")] = overridableReads(S("x"))) =>
              /\ last.ok
              /\ PropsOf(heap, last.obj) = Put(PropsOf(last.pre, last.obj), S("y"), last.value)
        /\ \A o \in TwoInstances :
              ~Has(PropsOf(heap, o), S("y")) =>
                  HostGet(heap, descs, o, S("y"), MaxStack).v = Lookup(PropsOf(heap, o), S("x"))

\* a.y = 'qux' overrides y on a; b has no y of its own and reads its x, 'baz', through y
C29_Witness ==
    /\ Len(heap) = 2
    /\ Has(defs, S("y"))
    /\ defs[S("y")] = overridableReads(S("x"))
    /\ WroteYOf
    /\ last.obj = Ref(1)
    /\ PropsOf(heap, Ref(1)) = (S("x") :> StrVal(S("bar"))) @@ (S("y") :> StrVal(S("qux")))
    /\ PropsOf(heap, Ref(2)) = (S("x") :> StrVal(S("baz")))
    /\ HostGet(heap, descs, Ref(2), S("y"), MaxStack).v = StrVal(S("baz"))

\* a.y = 'qux' through the alias sets a.x and leaves b.x
C29_AliasWitness ==
    /\ Len(heap) = 2
    /\ Has(defs, S("y"))
    /\ defs[S("y")] = alias(S("x"))
    /\ WroteYOf
    /\ last.obj = Ref(1)
    /\ PropsOf(heap, Ref(1)) = (S("x") :> StrVal(S("qux")))
    /\ PropsOf(heap, Ref(2)) = (S("x") :> StrVal(S("baz")))

-----------------------------------------------------------------------------
(* The path helpers of src/src/index.ts and of src/src/utils/index.ts *)

\* no value a segment of segs is looked up on has a callable get or set member
PlainOnPath(h, o, segs) ==
    \A n \in 0..(Len(segs) - 1) :
        /\ ~HasCallable(h, Traverse(h, o, segs, n), "get")
        /\ ~HasCallable(h, Traverse(h, o, segs, n), "set")

\* two outcomes with the same completion, value and final heap
SameOutcome(r1, r2) == r1.ok = r2.ok /\ r1.v = r2.v /\ r1.heap = r2.heap

(* C30: in every state reached by calls of the path helpers of both files, *)
(* for every root o, path p and value v such that no value visited along p *)
(* has a callable get or set member, getPath(o, p) of src/src/index.ts and *)
(* of src/src/utils/index.ts complete alike with the same value, and       *)
(* setPath(o, p, v) of the two files complete alike and leave the same     *)
(* heap.                                                                   *)
C30_PathHelpersAgree ==
    /\ \A o \in ReadRoots, p \in Paths :
          PlainOnPath(heap, o, split(p)) =>
              SameOutcome(idxGetPath(heap, descs, o, p, MaxStack),
                          getPath(heap, descs, o, p, MaxStack))
    /\ \A o \in Roots, p \in SetPaths, v \in SetVals :
          PlainOnPath(heap, o, split(p)) =>
              SameOutcome(idxSetPath(heap, descs, o, p, v, MaxStack),
                          setPath(heap, descs, o, p, v, MaxStack))

\* setPath of src/src/index.ts has assigned through a dotted path of plain objects
C30_Witness ==
    /\ last.op = "idxSetPath"
    /\ Len(Segs) > 1
    /\ PlainOnPath(last.pre, last.obj, Segs)
    /\ last.ok
    /\ heap # last.pre
    /\ heap = setPath(last.pre, descs, last.obj, last.path, last.value, MaxStack).heap

\* getPath of src/src/index.ts has read a value through a dotted path of plain objects
C30_ReadWitness ==
    /\ last.op = "idxGetPath"
    /\ Len(Segs) > 1
    /\ PlainOnPath(last.pre, last.obj, Segs)
    /\ last.ok
    /\ last.v # Undef
    /\ last.v = getPath(last.pre, descs, last.obj, last.path, MaxStack).v

====
